---- MODULE Spec2Model ----
(***************************************************************************)
(* Spot: the tool-augmented conversation loop (OllamaClient.parseToolCalls  *)
(* and OllamaClient.chat), the REPL round (Repl.run) and the session        *)
(* manager with its storage (SessionManager, SessionStorage, Summarizer).   *)
(*                                                                          *)
(* Text is a sequence of lexemes.  The punctuation lexemes are single       *)
(* characters; a word lexeme stands for a run of \w characters.  The two    *)
(* regular expressions of parseToolCalls and JSON.parse are computed on     *)
(* those sequences lexeme by lexeme, as the engine does character by        *)
(* character.                                                               *)
(***************************************************************************)
EXTENDS Integers, Sequences, FiniteSets, TLC

(***************************************************************************)
(* Lexemes                                                                  *)
(***************************************************************************)
LB == "{"
RB == "}"
QT == "\""
CL == ":"
CM == ","
WS == " "
LP == "("
RP == ")"

\* runs of word characters (\w+) that occur in the texts considered
WordToks == {"name", "arguments", "bash", "todo", "ls", "nope", "k", "j", "v", "w",
             "action", "content", "id", "add", "complete", "fix", "lorem"}

IsWord(c) == c \in WordToks

\* src/tools/index.ts: allTools, in registration order
allTools == <<"ls", "read_file", "write_file", "edit_file", "bash", "glob", "grep", "todo">>

\* the alternation of funcPattern
funcNames == {"bash", "read_file", "write_file", "glob", "grep", "todo"}

Range(s) == {s[i] : i \in 1..Len(s)}

\* allTools.find(t => t.name === name): name is the captured text
getToolByName(name) == Len(name) = 1 /\ name[1] \in Range(allTools)

(***************************************************************************)
(* Scanning helpers                                                         *)
(***************************************************************************)
\* index of the first lexeme at or after i that is not whitespace (\s*)
RECURSIVE SkipWs(_, _)
SkipWs(s, i) == IF i <= Len(s) /\ s[i] = WS THEN SkipWs(s, i + 1) ELSE i

\* index of the first lexeme at or after i that is in set cs, 0 when none
RECURSIVE NextTok(_, _, _)
NextTok(s, i, cs) ==
    IF i > Len(s) THEN 0
    ELSE IF s[i] \in cs THEN i
    ELSE NextTok(s, i + 1, cs)

\* s holds the literal lit at index i
Lit(s, i, lit) ==
    /\ i >= 1
    /\ i + Len(lit) - 1 <= Len(s)
    /\ \A k \in 1..Len(lit) : s[i + k - 1] = lit[k]

At(s, i, c) == i >= 1 /\ i <= Len(s) /\ s[i] = c

(***************************************************************************)
(* JSON values and JSON.parse on the subset strings and objects             *)
(***************************************************************************)
StrV(s) == [t |-> "str", s |-> s, m |-> <<>>]
ObjV(m) == [t |-> "obj", s |-> <<>>, m |-> m]

JsonFail == [ok |-> FALSE, v |-> StrV(<<>>), next |-> 0]

\* obj[key] = val: a repeated key keeps its place and takes the last value
PutMember(m, key, val) ==
    IF \E i \in 1..Len(m) : m[i].k = key
    THEN [i \in 1..Len(m) |-> IF m[i].k = key THEN [k |-> key, v |-> val] ELSE m[i]]
    ELSE Append(m, [k |-> key, v |-> val])

\* a string literal starting at i: no escapes occur in the texts considered
JsonString(s, i) ==
    IF ~At(s, i, QT) THEN JsonFail
    ELSE LET j == NextTok(s, i + 1, {QT})
         IN IF j = 0 THEN JsonFail
            ELSE [ok |-> TRUE, v |-> StrV(SubSeq(s, i + 1, j - 1)), next |-> j + 1]

RECURSIVE JsonValue(_, _), JsonMembers(_, _, _)
JsonValue(s, i) ==
    LET p == SkipWs(s, i)
    IN IF p > Len(s) THEN JsonFail
       ELSE IF s[p] = QT THEN JsonString(s, p)
       ELSE IF s[p] = LB
            THEN LET q == SkipWs(s, p + 1)
                 IN IF At(s, q, RB)
                    THEN [ok |-> TRUE, v |-> ObjV(<<>>), next |-> q + 1]
                    ELSE JsonMembers(s, q, <<>>)
       ELSE JsonFail

JsonMembers(s, i, acc) ==
    LET key == JsonString(s, i)
    IN IF ~key.ok THEN JsonFail
       ELSE LET c == SkipWs(s, key.next)
            IN IF ~At(s, c, CL) THEN JsonFail
               ELSE LET val == JsonValue(s, c + 1)
                    IN IF ~val.ok THEN JsonFail
                       ELSE LET d == SkipWs(s, val.next)
                                acc2 == PutMember(acc, key.v.s, val.v)
                            IN IF At(s, d, RB)
                               THEN [ok |-> TRUE, v |-> ObjV(acc2), next |-> d + 1]
                               ELSE IF At(s, d, CM)
                                    THEN JsonMembers(s, SkipWs(s, d + 1), acc2)
                                    ELSE JsonFail

\* JSON.parse(text): ok is FALSE where it throws
JSONparse(s) ==
    LET r == JsonValue(s, 1)
    IN IF r.ok /\ SkipWs(s, r.next) > Len(s)
       THEN [ok |-> TRUE, v |-> r.v]
       ELSE [ok |-> FALSE, v |-> StrV(<<>>)]

\* ---------------------------------------------------------------------------
\* jsonPattern:
\*   \{\s*"name"\s*:\s*"([^"]+)"\s*,\s*"arguments"\s*:\s*
\*   (\{[^{}]*(?:\{[^{}]*\}[^{}]*)*\})\s*\}
\* Every choice point of the expression is forced by the next brace or quote,
\* so a match at an index is unique.
\* ---------------------------------------------------------------------------
NoMatch == [ok |-> FALSE, name |-> <<>>, args |-> <<>>, index |-> 0, end |-> 0]

\* the arguments group, entered after its opening brace:
\* index of the closing brace of the group, 0 when the group cannot match
RECURSIVE ArgsGroupEnd(_, _)
ArgsGroupEnd(s, i) ==
    LET b == NextTok(s, i, {LB, RB})
    IN IF b = 0 THEN 0
       ELSE IF s[b] = RB THEN b
       ELSE LET c == NextTok(s, b + 1, {LB, RB})
            IN IF c = 0 \/ s[c] = LB THEN 0
               ELSE ArgsGroupEnd(s, c + 1)

jsonPatternAt(s, i) ==
    IF ~At(s, i, LB) THEN NoMatch
    ELSE
    LET p1 == SkipWs(s, i + 1)
    IN IF ~Lit(s, p1, <<QT, "name", QT>>) THEN NoMatch
    ELSE
    LET p2 == SkipWs(s, p1 + 3)
    IN IF ~At(s, p2, CL) THEN NoMatch
    ELSE
    LET p3 == SkipWs(s, p2 + 1)
    IN IF ~At(s, p3, QT) THEN NoMatch
    ELSE
    LET q == NextTok(s, p3 + 1, {QT})
    IN IF q = 0 \/ q = p3 + 1 THEN NoMatch
    ELSE
    LET p4 == SkipWs(s, q + 1)
    IN IF ~At(s, p4, CM) THEN NoMatch
    ELSE
    LET p5 == SkipWs(s, p4 + 1)
    IN IF ~Lit(s, p5, <<QT, "arguments", QT>>) THEN NoMatch
    ELSE
    LET p6 == SkipWs(s, p5 + 3)
    IN IF ~At(s, p6, CL) THEN NoMatch
    ELSE
    LET p7 == SkipWs(s, p6 + 1)
    IN IF ~At(s, p7, LB) THEN NoMatch
    ELSE
    LET e == ArgsGroupEnd(s, p7 + 1)
    IN IF e = 0 THEN NoMatch
    ELSE
    LET p8 == SkipWs(s, e + 1)
    IN IF ~At(s, p8, RB) THEN NoMatch
    ELSE [ok |-> TRUE, name |-> SubSeq(s, p3 + 1, q - 1),
          args |-> SubSeq(s, p7, e), index |-> i, end |-> p8]

\* ---------------------------------------------------------------------------
\* funcPattern:
\*   \b(bash|read_file|write_file|glob|grep|todo)\s*\(\s*(\{[^)]+\})\s*\)
\* [^)]+ runs to the first closing parenthesis; the engine backs off to the
\* last closing brace that only whitespace separates from it.
\* ---------------------------------------------------------------------------
\* index of the last lexeme at or before i that is not whitespace
RECURSIVE BackWs(_, _)
BackWs(s, i) == IF i >= 1 /\ s[i] = WS THEN BackWs(s, i - 1) ELSE i

funcPatternAt(s, i) ==
    IF ~(i >= 1 /\ i <= Len(s) /\ s[i] \in funcNames) THEN NoMatch
    ELSE IF i > 1 /\ IsWord(s[i - 1]) THEN NoMatch
    ELSE
    LET p1 == SkipWs(s, i + 1)
    IN IF ~At(s, p1, LP) THEN NoMatch
    ELSE
    LET p2 == SkipWs(s, p1 + 1)
    IN IF ~At(s, p2, LB) THEN NoMatch
    ELSE
    LET r == NextTok(s, p2 + 1, {RP})
    IN IF r = 0 THEN NoMatch
    ELSE
    LET e == BackWs(s, r - 1)
    IN IF ~(At(s, e, RB) /\ e >= p2 + 2) THEN NoMatch
    ELSE [ok |-> TRUE, name |-> <<s[i]>>, args |-> SubSeq(s, p2, e),
          index |-> i, end |-> r]

(***************************************************************************)
(* OllamaClient.parseToolCalls                                              *)
(***************************************************************************)
\* RegExp.prototype.exec from lastIndex: the leftmost index with a match
RECURSIVE jsonPatternExec(_, _)
jsonPatternExec(s, from) ==
    IF from > Len(s) THEN NoMatch
    ELSE IF jsonPatternAt(s, from).ok THEN jsonPatternAt(s, from)
    ELSE jsonPatternExec(s, from + 1)

RECURSIVE funcPatternExec(_, _)
funcPatternExec(s, from) ==
    IF from > Len(s) THEN NoMatch
    ELSE IF funcPatternAt(s, from).ok THEN funcPatternAt(s, from)
    ELSE funcPatternExec(s, from + 1)

ToolCall(m, v) == [name |-> m.name, arguments |-> v, index |-> m.index]

\* a first loop that pushes without asking the registry
AcceptJsonAnyName(calls, m) ==
    LET a == JSONparse(m.args)
    IN IF a.ok THEN Append(calls, ToolCall(m, a.v)) ELSE calls

\* body of the first loop: try { JSON.parse; if (getToolByName(name)) push } catch {}
AcceptJson(calls, m) ==
    LET a == JSONparse(m.args)
    IN IF a.ok /\ getToolByName(m.name) THEN Append(calls, ToolCall(m, a.v)) ELSE calls

\* body of the second loop: try { JSON.parse; push } catch {}
AcceptFunc(calls, m) ==
    LET a == JSONparse(m.args)
    IN IF a.ok THEN Append(calls, ToolCall(m, a.v)) ELSE calls

RECURSIVE jsonLoop(_, _, _)
jsonLoop(s, from, calls) ==
    LET m == jsonPatternExec(s, from)
    IN IF ~m.ok THEN calls ELSE jsonLoop(s, m.end + 1, AcceptJson(calls, m))

RECURSIVE funcLoop(_, _, _)
funcLoop(s, from, calls) ==
    LET m == funcPatternExec(s, from)
    IN IF ~m.ok THEN calls ELSE funcLoop(s, m.end + 1, AcceptFunc(calls, m))

parseToolCalls(s) ==
    LET calls == jsonLoop(s, 1, <<>>)
    IN IF Len(calls) = 0 THEN funcLoop(s, 1, <<>>) ELSE calls

(***************************************************************************)
(* Model output: the texts the extractor is applied to.  A text is the      *)
(* rendering of a plan, a sequence of segments: prose, a request in the     *)
(* primary form, a primary-form occurrence with a payload that is not       *)
(* JSON, a request in the function-call form.                               *)
(***************************************************************************)
\* JSON.stringify(v), with a blank after ':' and ',' when sp
RECURSIVE Stringify(_, _), StringifyMembers(_, _, _)
Stringify(v, sp) ==
    IF v.t = "str" THEN <<QT>> \o v.s \o <<QT>>
    ELSE <<LB>> \o StringifyMembers(v.m, 1, sp) \o <<RB>>

StringifyMembers(m, i, sp) ==
    IF i > Len(m) THEN <<>>
    ELSE (IF i > 1 THEN <<CM>> \o (IF sp THEN <<WS>> ELSE <<>>) ELSE <<>>)
         \o <<QT>> \o m[i].k \o <<QT, CL>> \o (IF sp THEN <<WS>> ELSE <<>>)
         \o Stringify(m[i].v, sp) \o StringifyMembers(m, i + 1, sp)

Obj1(k, v) == ObjV(<<[k |-> <<k>>, v |-> v]>>)

\* argument objects: empty, flat, nested once, nested twice, and strings that
\* hold braces, parentheses and blanks
ArgFlat == Obj1("k", StrV(<<"v">>))
ArgTwo == ObjV(<<[k |-> <<"k">>, v |-> StrV(<<"v">>)], [k |-> <<"j">>, v |-> StrV(<<"w", WS, "w">>)]>>)
ArgNested1 == Obj1("k", Obj1("j", StrV(<<"v">>)))
ArgNested2 == Obj1("k", Obj1("j", ObjV(<<>>)))
ArgBraceStr == Obj1("k", StrV(<<"w", LB, "v", RB>>))
ArgCloseStr == Obj1("k", StrV(<<"w", RB>>))
ArgDeepStr == Obj1("k", StrV(<<LB, LB, RB, RB>>))
ArgParenStr == Obj1("k", StrV(<<LP, "w", RP>>))

\* argument texts both patterns can delimit: braces balanced and at most one
\* level deep inside the object (for funcPattern also: no parenthesis)
SimpleArgs == {ObjV(<<>>), ArgFlat, ArgTwo, ArgNested1, ArgBraceStr}
ArgValues == SimpleArgs \cup {ArgNested2, ArgCloseStr, ArgDeepStr, ArgParenStr}

\* payloads jsonPattern delimits and JSON.parse rejects
BadPayloads == {<<LB, "k", RB>>, <<LB, QT, "k", QT, CL, "v", RB>>,
                <<LB, QT, "k", QT, CL, QT, "v", QT, CM, RB>>,
                <<LB, QT, "k", QT, CL, QT, "v", RB>>}

Header(name, sp) ==
    <<LB, QT, "name", QT, CL>> \o (IF sp THEN <<WS>> ELSE <<>>)
    \o <<QT, name, QT, CM>> \o (IF sp THEN <<WS>> ELSE <<>>)
    \o <<QT, "arguments", QT, CL>> \o (IF sp THEN <<WS>> ELSE <<>>)

\* {"name": "<name>", "arguments": <payload>}
PrimaryText(name, payload, sp) == Header(name, sp) \o payload \o <<RB>>

\* <name>(<payload>)
FuncText(name, payload, sp) ==
    <<name>> \o (IF sp THEN <<WS>> ELSE <<>>) \o <<LP>> \o payload \o <<RP>>

Seg(kind, name, val, toks) == [kind |-> kind, name |-> name, val |-> val, toks |-> toks]

ReqSeg(name, v, sp) == Seg("req", name, v, PrimaryText(name, Stringify(v, sp), sp))
BadSeg(name, payload) == Seg("bad", name, ObjV(<<>>), PrimaryText(name, payload, FALSE))
FuncSeg(name, v, sp) == Seg("func", name, v, FuncText(name, Stringify(v, sp), sp))
ProseSeg(toks) == Seg("prose", "", ObjV(<<>>), toks)

RECURSIVE Render(_)
Render(plan) == IF plan = <<>> THEN <<>> ELSE Head(plan).toks \o Render(Tail(plan))

(***************************************************************************)
(* Session types (session/types.ts) and the summarizer                      *)
(***************************************************************************)
\* When to trigger summarization (in estimated tokens)
CONTEXT_THRESHOLD == 24000
\* How many recent messages to keep after summarization
KEEP_RECENT_MESSAGES == 10

\* "lorem" stands for a run of word characters one token short of the threshold
LoremLen == 4 * CONTEXT_THRESHOLD - 4

\* text.length: characters of a text
CharLen(c) ==
    IF c = "lorem" THEN LoremLen
    ELSE IF c \in {"name", "bash", "todo", "nope", "a.ts"} THEN 4
    ELSE IF c = "arguments" THEN 9
    ELSE IF c \in {"action", "digest"} THEN 6
    ELSE IF c \in {"content"} THEN 7
    ELSE IF c \in {"complete"} THEN 8
    ELSE IF c \in {"ls", "id"} THEN 2
    ELSE IF c \in {"add", "fix"} THEN 3
    ELSE 1

RECURSIVE Length(_)
Length(text) == IF text = <<>> THEN 0 ELSE CharLen(Head(text)) + Length(Tail(text))

\* Math.ceil(text.length / 4)
estimateTokens(text) == (Length(text) + 3) \div 4

RECURSIVE estimateMessagesTokens(_)
estimateMessagesTokens(messages) ==
    IF messages = <<>> THEN 0
    ELSE estimateTokens(Head(messages).content) + estimateMessagesTokens(Tail(messages))

Message(role, content, timestamp) ==
    [role |-> role, content |-> content, timestamp |-> timestamp]

\* summary: string | null
Null == [isNull |-> TRUE, text |-> <<>>]
Str(text) == [isNull |-> FALSE, text |-> text]
\* a string used as a condition: null and "" are falsy
Truthy(x) == ~x.isNull /\ x.text # <<>>

PROJECT_ROOT == "/project"
PRIMARY_MODEL == "qwen2.5-coder"

createEmptySession(id, model, now) ==
    [id |-> id, projectRoot |-> PROJECT_ROOT, model |-> model, messages |-> <<>>,
     summary |-> Null, summaryUpTo |-> 0, todos |-> <<>>,
     created |-> now, updated |-> now]

\* the session after SessionManager.addMessage (markDirty apart)
\* an addMessage that stores the message twice
addMessageTwice(sess, role, content, now) ==
    [sess EXCEPT !.messages = @ \o <<Message(role, content, now), Message(role, content, now)>>,
                 !.updated = now]

addMessage(sess, role, content, now) ==
    [sess EXCEPT !.messages = Append(@, Message(role, content, now)), !.updated = now]

CountRole(messages, role) ==
    Cardinality({i \in 1..Len(messages) : messages[i].role = role})

\* lexemes the expression [\/\w.-]+\.\w+ of fallbackSummary matches
PathToks == {"a.ts"}

RECURSIVE PathsOf(_, _)
PathsOf(text, seen) ==
    IF text = <<>> THEN <<>>
    ELSE IF Head(text) \in PathToks /\ Head(text) \notin seen
         THEN <<Head(text)>> \o PathsOf(Tail(text), seen \cup {Head(text)})
         ELSE PathsOf(Tail(text), seen)

RECURSIVE JoinContents(_)
JoinContents(messages) ==
    IF messages = <<>> THEN <<>>
    ELSE Head(messages).content \o (IF Len(messages) > 1 THEN <<WS>> ELSE <<>>)
         \o JoinContents(Tail(messages))

RECURSIVE JoinWith(_, _)
JoinWith(items, sep) ==
    IF items = <<>> THEN <<>>
    ELSE <<Head(items)>> \o (IF Len(items) > 1 THEN <<sep>> ELSE <<>>)
         \o JoinWith(Tail(items), sep)

\* Summarizer.fallbackSummary
fallbackSummary(messages) ==
    LET uniquePaths == SubSeq(PathsOf(JoinContents(messages), {}), 1,
                              IF Len(PathsOf(JoinContents(messages), {})) < 10
                              THEN Len(PathsOf(JoinContents(messages), {})) ELSE 10)
    IN <<"Previous conversation: ", ToString(CountRole(messages, "user")),
         " user messages, ", ToString(CountRole(messages, "assistant")),
         " assistant responses.">>
       \o (IF Len(uniquePaths) > 0
           THEN <<" Files discussed: ">> \o JoinWith(uniquePaths, ", ") \o <<".">>
           ELSE <<>>)

\* a summarizer that has no fallback: a failed request leaves no digest
summarizeNoFallback(messages, reply) == reply.text

\* Summarizer.summarize: the digest the backend returns, or the fallback when
\* the request fails.  reply is [ok, text]: the backend's answer.
summarize(messages, reply) ==
    IF reply.ok THEN reply.text ELSE fallbackSummary(messages)

(***************************************************************************)
(* SessionManager: the data part of its operations.  markDirty, the timer   *)
(* and the storage are in the actions below.                                *)
(***************************************************************************)
\* a split that keeps one message less
splitIndexOfKeepsFewer(messages) ==
    IF Len(messages) - (KEEP_RECENT_MESSAGES - 1) > 0
    THEN Len(messages) - (KEEP_RECENT_MESSAGES - 1) ELSE 0

\* Math.max(0, messages.length - KEEP_RECENT_MESSAGES)
splitIndexOf(messages) ==
    IF Len(messages) - KEEP_RECENT_MESSAGES > 0
    THEN Len(messages) - KEEP_RECENT_MESSAGES ELSE 0

\* a threshold test that lets an estimate equal to the threshold pass
compressNeededAbove(sess) ==
    /\ estimateMessagesTokens(sess.messages) > CONTEXT_THRESHOLD
    /\ splitIndexOf(sess.messages) # 0

\* maybeCompress up to its await: TRUE when it goes on to summarize
compressNeeded(sess) ==
    /\ ~(estimateMessagesTokens(sess.messages) < CONTEXT_THRESHOLD)
    /\ splitIndexOf(sess.messages) # 0

\* a compaction that keeps every message
applyCompressKeepsAll(sess, split, toSummarize, newSummary) ==
    [sess EXCEPT !.summary = Str(newSummary),
                 !.summaryUpTo = toSummarize[Len(toSummarize)].timestamp]

\* a compaction that takes the cutoff from the first message it summarizes
applyCompressFirstCutoff(sess, split, toSummarize, newSummary) ==
    [sess EXCEPT !.summary = Str(newSummary),
                 !.summaryUpTo = toSummarize[1].timestamp - 1,
                 !.messages = SubSeq(@, split + 1, Len(@))]

\* a compaction whose digest takes the place of the summary
applyCompressReplaces(sess, split, toSummarize, newSummary) ==
    [sess EXCEPT !.summary = Str(newSummary),
                 !.summaryUpTo = toSummarize[Len(toSummarize)].timestamp,
                 !.messages = SubSeq(@, split + 1, Len(@))]

\* a compaction that leaves the messages for a later step
applyCompressInTwoSteps(sess, split, toSummarize, newSummary) ==
    [sess EXCEPT
       !.summary = IF Truthy(@) THEN Str(@.text \o <<"\n\n---\n\n">> \o newSummary)
                   ELSE Str(newSummary),
       !.summaryUpTo = toSummarize[Len(toSummarize)].timestamp]

\* maybeCompress after its await; split and toSummarize were taken before it
applyCompress(sess, split, toSummarize, newSummary) ==
    [sess EXCEPT
       !.summary = IF Truthy(@) THEN Str(@.text \o <<"\n\n---\n\n">> \o newSummary)
                   ELSE Str(newSummary),
       !.summaryUpTo = IF Len(toSummarize) > 0
                       THEN toSummarize[Len(toSummarize)].timestamp ELSE @,
       !.messages = SubSeq(@, split + 1, Len(@))]

\* the system prompt Repl.buildSystemPrompt returns: the base prompt and the
\* todo section (formatTodosForPrompt)
TodoIcon(status) ==
    IF status = "completed" THEN "[x]" ELSE IF status = "in_progress" THEN "[>]" ELSE "[ ]"

RECURSIVE TodoLines(_)
TodoLines(todos) ==
    IF todos = <<>> THEN <<>>
    ELSE <<TodoIcon(Head(todos).status), WS>> \o Head(todos).content
         \o <<" (id: ", Head(todos).id, ")">>
         \o (IF Len(todos) > 1 THEN <<"\n">> ELSE <<>>) \o TodoLines(Tail(todos))

formatTodosForPrompt(sess) ==
    IF Len(sess.todos) = 0 THEN <<>>
    ELSE <<"\n## Current Tasks\n">> \o TodoLines(sess.todos)

buildSystemPrompt(sess) ==
    <<"BASE_SYSTEM_PROMPT">>
    \o (IF formatTodosForPrompt(sess) # <<>>
        THEN <<"\n">> \o formatTodosForPrompt(sess) ELSE <<>>)

AfterCutoff(messages, cutoff) ==
    SelectSeq(messages, LAMBDA m : m.timestamp > cutoff)

\* SessionManager.getContextMessages
getContextMessages(sess, systemPrompt) ==
    <<Message("system",
              systemPrompt \o (IF Truthy(sess.summary)
                               THEN <<"\n\n## Previous Conversation Summary\n">> \o sess.summary.text
                               ELSE <<>>),
              0)>>
    \o (IF Truthy(sess.summary) THEN AfterCutoff(sess.messages, sess.summaryUpTo)
        ELSE sess.messages)

ChatMessage(role, content) == [role |-> role, content |-> content]

\* Repl.getMessagesForModel
getMessagesForModel(sess) ==
    LET ctx == getContextMessages(sess, buildSystemPrompt(sess))
    IN [i \in 1..Len(ctx) |-> ChatMessage(ctx[i].role, ctx[i].content)]

(***************************************************************************)
(* OllamaClient.chat: the tool instructions in the first system message     *)
(***************************************************************************)
\* the words content.includes looks for
TOOL_CALLING == "TOOL CALLING"

\* the text appended: heading, format instructions, toolDesc, closing line
ToolSection ==
    <<"\n\n## ", TOOL_CALLING, "\n\nWhen you need to use a tool, output ONLY a JSON object",
      "toolDesc", "\n\nAfter I execute the tool, I will give you the result">>

\* a map that appends the section to the first system message in any case
injectToolsAlways(messages) ==
    [i \in 1..Len(messages) |->
        IF i = 1 /\ messages[i].role = "system"
        THEN [messages[i] EXCEPT !.content = @ \o ToolSection]
        ELSE messages[i]]

\* messagesWithTools = messages.map((m, i) => ...)
injectTools(messages) ==
    [i \in 1..Len(messages) |->
        IF i = 1 /\ messages[i].role = "system"
           /\ ~(\E k \in 1..Len(messages[i].content) : messages[i].content[k] = TOOL_CALLING)
        THEN [messages[i] EXCEPT !.content = @ \o ToolSection]
        ELSE messages[i]]

(***************************************************************************)
(* The task list and the todo tool                                          *)
(***************************************************************************)
Task(id, content, now) ==
    [id |-> id, content |-> content, status |-> "pending", created |-> now]

\* an addTodo that pushes the task twice
addTodoTwice(todos, id, content, now) ==
    Append(Append(todos, Task(id, content, now)), Task(id, content, now))

\* SessionManager.addTodo: this.session.todos.push(task) (markDirty apart)
addTodo(todos, id, content, now) == Append(todos, Task(id, content, now))

HasTodo(todos, id) == \E i \in 1..Len(todos) : todos[i].id = id

FirstTodo(todos, id) == CHOOSE i \in 1..Len(todos) :
    todos[i].id = id /\ \A j \in 1..(i - 1) : todos[j].id # id

updateTodo(todos, id, status) ==
    IF HasTodo(todos, id) THEN [todos EXCEPT ![FirstTodo(todos, id)].status = status]
    ELSE todos

removeTodo(todos, id) ==
    IF HasTodo(todos, id)
    THEN SubSeq(todos, 1, FirstTodo(todos, id) - 1)
         \o SubSeq(todos, FirstTodo(todos, id) + 1, Len(todos))
    ELSE todos

clearCompletedTodos(todos) == SelectSeq(todos, LAMBDA t : t.status # "completed")

\* params.<key>: the member of the arguments object, Undefined when absent
Undefined == [t |-> "undefined", s |-> <<>>, m |-> <<>>]

Member(args, key) ==
    IF args.t = "obj" /\ \E i \in 1..Len(args.m) : args.m[i].k = <<key>>
    THEN args.m[CHOOSE i \in 1..Len(args.m) : args.m[i].k = <<key>>].v
    ELSE Undefined

\* a value used as a condition, and a value interpolated into a string
TruthyVal(v) == v.t = "obj" \/ (v.t = "str" /\ v.s # <<>>)
TextOf(v) == IF v.t = "str" THEN v.s ELSE IF v.t = "obj" THEN <<"[object Object]">> ELSE <<"undefined">>

\* todoTool.execute(params, context) with a session context: the result
\* text, the task list afterwards and whether markDirty was called
TodoResult(text, todos, marked) == [text |-> text, todos |-> todos, marked |-> marked]

todoExecute(params, todos, newId, now) ==
    LET action == Member(params, "action")
        content == Member(params, "content")
        id == Member(params, "id")
    IN IF action = StrV(<<"list">>)
       THEN IF Len(todos) = 0 THEN TodoResult(<<"No tasks in the list.">>, todos, FALSE)
            ELSE TodoResult(<<"Tasks:\n">> \o TodoLines(todos), todos, FALSE)
       ELSE IF action = StrV(<<"add">>)
       THEN IF ~TruthyVal(content)
            THEN TodoResult(<<"Error: \"content\" is required for add action">>, todos, FALSE)
            ELSE TodoResult(<<"Added task: ">> \o TextOf(content) \o <<" (id: ", newId, ")">>,
                            addTodo(todos, newId, TextOf(content), now), TRUE)
       ELSE IF action \in {StrV(<<"start">>), StrV(<<"complete">>)}
       THEN IF ~TruthyVal(id)
            THEN TodoResult(<<"Error: \"id\" is required for ">> \o action.s \o <<" action">>, todos, FALSE)
            ELSE IF Len(TextOf(id)) = 1 /\ HasTodo(todos, TextOf(id)[1])
                 THEN TodoResult(<<"Task ">> \o TextOf(id) \o <<" marked as ">>
                                 \o (IF action.s = <<"start">> THEN <<"in progress">> ELSE <<"completed">>),
                                 updateTodo(todos, TextOf(id)[1],
                                            IF action.s = <<"start">> THEN "in_progress" ELSE "completed"),
                                 TRUE)
                 ELSE TodoResult(<<"Error: Task ">> \o TextOf(id) \o <<" not found">>, todos, FALSE)
       ELSE IF action = StrV(<<"remove">>)
       THEN IF ~TruthyVal(id)
            THEN TodoResult(<<"Error: \"id\" is required for remove action">>, todos, FALSE)
            ELSE IF Len(TextOf(id)) = 1 /\ HasTodo(todos, TextOf(id)[1])
                 THEN TodoResult(<<"Task ">> \o TextOf(id) \o <<" removed">>,
                                 removeTodo(todos, TextOf(id)[1]), TRUE)
                 ELSE TodoResult(<<"Error: Task ">> \o TextOf(id) \o <<" not found">>, todos, FALSE)
       ELSE IF action = StrV(<<"clear_completed">>)
       THEN TodoResult(<<"Cleared ", ToString(Len(todos) - Len(clearCompletedTodos(todos))),
                         " completed task(s)">>,
                       clearCompletedTodos(todos),
                       Len(todos) - Len(clearCompletedTodos(todos)) > 0)
       ELSE TodoResult(<<"Error: Unknown action \"">> \o TextOf(action) \o <<"\". Use: list, add, start, complete, remove, clear_completed">>,
                       todos, FALSE)

(***************************************************************************)
(* SessionStorage: the durable record                                       *)
(***************************************************************************)
\* JSON.stringify(session, null, 2): the properties in the object's order
JSONstringifySession(sess) ==
    <<<<"id", sess.id>>, <<"projectRoot", sess.projectRoot>>, <<"model", sess.model>>,
      <<"messages", sess.messages>>, <<"summary", sess.summary>>,
      <<"summaryUpTo", sess.summaryUpTo>>, <<"todos", sess.todos>>,
      <<"created", sess.created>>, <<"updated", sess.updated>>>>

Prop(doc, key) == doc[CHOOSE i \in 1..Len(doc) : doc[i][1] = key][2]

\* JSON.parse(text) as Session
JSONparseSession(doc) ==
    [id |-> Prop(doc, "id"), projectRoot |-> Prop(doc, "projectRoot"),
     model |-> Prop(doc, "model"), messages |-> Prop(doc, "messages"),
     summary |-> Prop(doc, "summary"), summaryUpTo |-> Prop(doc, "summaryUpTo"),
     todos |-> Prop(doc, "todos"), created |-> Prop(doc, "created"),
     updated |-> Prop(doc, "updated")]

NoDoc == <<>>
\* current.json: absent, or a file with a text
Absent == [exists |-> FALSE, text |-> NoDoc]
File(text) == [exists |-> TRUE, text |-> text]

\* SessionStorage.load: the parsed record, found FALSE for null
\* JSON.parse(text) returns: the text is a complete record
Parseable(text) == Len(text) = 9

\* a load that takes a text it cannot parse for an empty record
storageLoadNoCatch(file) ==
    IF file.exists
    THEN [found |-> TRUE,
          sess |-> IF Parseable(file.text) THEN JSONparseSession(file.text)
                   ELSE createEmptySession("none", PRIMARY_MODEL, 0)]
    ELSE [found |-> FALSE, sess |-> createEmptySession("none", PRIMARY_MODEL, 0)]

storageLoad(file) ==
    IF file.exists /\ Parseable(file.text)
    THEN [found |-> TRUE, sess |-> JSONparseSession(file.text)]
    ELSE [found |-> FALSE, sess |-> createEmptySession("none", PRIMARY_MODEL, 0)]

\* a call of SessionStorage.save(session) in progress: awaiting mkdir, then
\* awaiting the write of the text JSON.stringify produced.  The argument is a
\* reference: live while it is still this.session, else the object it was.
NoSession == createEmptySession("none", PRIMARY_MODEL, 0)
Idle == [st |-> "idle", live |-> FALSE, snap |-> NoSession, buf |-> NoDoc]
SaveCalled == [st |-> "mkdir", live |-> TRUE, snap |-> NoSession, buf |-> NoDoc]
Stringified(w, sess) ==
    [st |-> "write", live |-> FALSE, snap |-> NoSession,
     buf |-> JSONstringifySession(IF w.live THEN sess ELSE w.snap)]
\* this.session is assigned another object while w holds the old one
Detach(w, old) == IF w.live THEN [w EXCEPT !.live = FALSE, !.snap = old] ELSE w

(***************************************************************************)
(* State                                                                    *)
(***************************************************************************)
VARIABLES
    pc,            \* position of the single thread of control
    turns,         \* user inputs taken, or operations called, so far
    session,       \* SessionManager.session
    dirty,         \* SessionManager.dirty
    saveTimeout,   \* SessionManager.saveTimeout: "null", "pending" or "fired"
    timers,        \* the timers of the runtime: the one saveTimeout holds, those pending
    cmp,           \* maybeCompress: splitIndex and toSummarize across its await
    disk,          \* current.json
    tw,            \* the storage.save call of the timer callback
    mw,            \* the storage.save call of SessionManager.save
    arch,          \* the archive directory: the records written to it, oldest first
    clock,         \* Date.now()
    nextId,        \* randomUUID(): number of identifiers drawn
    inflight,      \* chat: the messages array
    plan,          \* the segments the model's last response was rendered from
    chunks,        \* chat: the fragments the last response was streamed in
    fullResponse,  \* chat: the accumulated response text
    toolCalls,     \* chat: parseToolCalls(fullResponse)
    request,       \* chat: messagesWithTools, the messages of the last gateway request
    tcIdx,         \* chat: index of the tool call being executed
    modelCalls,    \* chat: calls of the Model Gateway in this chat
    execLog,       \* the capability executions of the current response, in order
    proc,          \* bashTool.execute in progress: the spawned process and its timer
    ret,           \* what the last completed call returned to its caller
    hist           \* the current round: its status and what it produced

mvars == <<session, dirty, saveTimeout, timers, cmp>>
dvars == <<disk, tw, mw, arch>>
evars == <<clock, nextId>>
xvars == <<plan, chunks, fullResponse, toolCalls, request>>
cvars == <<inflight, tcIdx, modelCalls, execLog, proc>>
vars == <<pc, turns, mvars, dvars, evars, xvars, cvars, ret, hist>>

\* randomUUID(): the n-th identifier drawn
Uuid(n) == "id" \o ToString(n)

\* no bash execution in progress.  st: "running" from spawn, "exited" once the
\* process has ended; killed: the timeout callback has run; held: a process
\* the command started still holds the pipes; code: the exit code
NoProc == [st |-> "none", kind |-> "none", killed |-> FALSE, held |-> FALSE, code |-> "null"]

\* no timer was set: handle is the timer saveTimeout holds, 0 for null
NoTimers == [handle |-> 0, pending |-> {}]

\* failed: the digest request of the last compaction threw
NoCmp == [split |-> 0, toSummarize |-> <<>>, failed |-> FALSE]
\* what the last completed call returned, and what the call of the same
\* operation just before it returned ("none" when another call came between)
NoRet == [op |-> "none", val |-> "none", prev |-> "none"]
Ret(op, val) == [op |-> op, val |-> val, prev |-> IF ret.op = op THEN ret.val ELSE "none"]
\* before, archived: the current record and the session when archive was called
\* events: what chat did for its requests, in order
NoHist == [status |-> "none", results |-> <<>>, added |-> {}, answer |-> <<>>,
           before |-> Absent, archived |-> NoSession, events |-> <<>>]

(***************************************************************************)
(* SessionManager.markDirty and the timer callback it schedules             *)
(***************************************************************************)
\* clearTimeout(handle): a timer that is pending is taken off; one that has
\* fired or was cleared is left alone
clearTimeout(t) == [t EXCEPT !.pending = @ \ {t.handle}]

\* setTimeout(callback, AUTOSAVE_DELAY): a new timer, the first identifier
\* that no pending timer has and that saveTimeout does not hold
setTimeout(t) ==
    LET used == t.pending \cup {t.handle}
        id == CHOOSE i \in 1..(Cardinality(used) + 1) :
                  /\ i \notin used
                  /\ \A j \in 1..(i - 1) : j \in used
    IN [handle |-> id, pending |-> t.pending \cup {id}]

\* a markDirty that schedules without cancelling
scheduleKeepsOld(t) == setTimeout(t)

\* markDirty: if (this.saveTimeout) clearTimeout(this.saveTimeout);
\* this.saveTimeout = setTimeout(...)
schedule(t) == setTimeout(IF t.handle # 0 THEN clearTimeout(t) ELSE t)

\* dirty = true; clearTimeout(saveTimeout); saveTimeout = setTimeout(...)
markDirty ==
    /\ dirty' = TRUE
    /\ saveTimeout' = "pending"
    /\ timers' = schedule(timers)

\* the timer fires: if (this.dirty) storage.save(this.session) is called.
\* One callback at a time is followed through its write.
TimerFire ==
    /\ \E id \in timers.pending :
         /\ timers' = [timers EXCEPT !.pending = @ \ {id}]
         /\ saveTimeout' = IF id = timers.handle THEN "fired" ELSE saveTimeout
    /\ tw.st = "idle"
    /\ pc \notin {"init", "exited"}
    /\ tw' = IF dirty THEN SaveCalled ELSE tw
    /\ UNCHANGED <<pc, turns, session, dirty, cmp, disk, mw, arch, evars, xvars, cvars, ret, hist>>

\* mkdir -p returned: Bun.write(path, JSON.stringify(session)) is called
TimerStringify ==
    /\ tw.st = "mkdir"
    /\ tw' = Stringified(tw, session)
    /\ UNCHANGED <<pc, turns, mvars, disk, mw, arch, evars, xvars, cvars, ret, hist>>

\* the write returned: this.dirty = false
TimerWritten ==
    /\ tw.st = "write"
    /\ disk' = File(tw.buf)
    /\ tw' = Idle
    /\ dirty' = FALSE
    /\ UNCHANGED <<pc, turns, session, saveTimeout, timers, cmp, mw, arch, evars, xvars, cvars, ret, hist>>

(***************************************************************************)
(* The model's responses and the tools' outcomes in the conversation loop   *)
(***************************************************************************)
MaxTurns == 1
MaxModelCalls == 2
MaxClock == 2

ArgsAdd == ObjV(<<[k |-> <<"action">>, v |-> StrV(<<"add">>)],
                  [k |-> <<"content">>, v |-> StrV(<<"fix">>)]>>)

\* responses without a request the extractor accepts
AnswerPlans == {<<ProseSeg(<<"w">>)>>,
                <<ReqSeg("bash", ArgNested2, FALSE)>>,
                <<ReqSeg("nope", ArgFlat, FALSE)>>}

\* responses with requests
RequestPlans == {<<ReqSeg("todo", ArgsAdd, TRUE)>>,
                 <<ReqSeg("bash", ArgFlat, FALSE), ProseSeg(<<WS>>), ReqSeg("todo", ArgsAdd, TRUE)>>,
                 <<BadSeg("bash", <<LB, "k", RB>>), ReqSeg("ls", ArgFlat, FALSE)>>,
                 <<ProseSeg(<<"w", WS>>), FuncSeg("bash", ArgFlat, FALSE)>>}

Responses == AnswerPlans \cup RequestPlans

\* the stream: the text cut in two fragments around an empty one
Chunkings(text) ==
    {<<SubSeq(text, 1, Len(text) \div 2), <<>>, SubSeq(text, Len(text) \div 2 + 1, Len(text))>>}

\* an accumulation that keeps the last fragment only
AccumulateLast(cs, acc) == IF cs = <<>> THEN acc ELSE cs[Len(cs)]

\* for await (const chunk of response): fullResponse += token, for the
\* chunks whose content is not empty
RECURSIVE Accumulate(_, _)
Accumulate(cs, acc) ==
    IF cs = <<>> THEN acc
    ELSE Accumulate(Tail(cs), IF Head(cs) # <<>> THEN acc \o Head(cs) ELSE acc)

Inputs == {<<"w">>}

\* what a digest request can come back with: a digest, an empty text, an error
DigestReplies == {[ok |-> TRUE, text |-> <<"digest">>], [ok |-> TRUE, text |-> <<>>],
                  [ok |-> FALSE, text |-> <<>>]}

\* a result message that names the tool and leaves the result out
ToolResultContentBare(name, result) == <<"Tool result for ">> \o name

\* the content of the message that carries a tool result
ToolResultContent(name, result) == <<"Tool result for ">> \o name \o <<":\n">> \o result
ThrownResult(name) == <<"Error executing ">> \o name \o <<": ", "Error">>

(***************************************************************************)
(* Stored transcripts: what an earlier run of the program left on disk      *)
(***************************************************************************)
StartClock == 13

\* n messages, user and assistant in turn, written at times 1..n (the
\* messages at the indices in tied carry the time of their predecessor);
\* the messages at the indices in big hold "lorem", the others one letter
Transcript(n, big, tied) ==
    [createEmptySession("id0", PRIMARY_MODEL, 1) EXCEPT
       !.messages = [i \in 1..n |->
                       Message(IF i % 2 = 1 THEN "user" ELSE "assistant",
                               IF i \in big THEN <<"lorem">> ELSE <<"w">>,
                               IF i \in tied THEN i - 1 ELSE i)],
       !.updated = n]

(***************************************************************************)
(* Repl.run and OllamaClient.chat                                           *)
(***************************************************************************)
InitialDisks == {Absent, File(JSONstringifySession(Transcript(11, {1}, {})))}

Init ==
    /\ pc = "init"
    /\ turns = 0
    /\ session = createEmptySession(Uuid(1), PRIMARY_MODEL, StartClock)
    /\ dirty = FALSE
    /\ saveTimeout = "null"
    /\ timers = NoTimers
    /\ cmp = NoCmp
    /\ disk \in InitialDisks
    /\ tw = Idle
    /\ mw = Idle
    /\ arch = <<>>
    /\ clock = StartClock
    /\ nextId = 1
    /\ inflight = <<>>
    /\ plan = <<>>
    /\ chunks = <<>>
    /\ fullResponse = <<>>
    /\ toolCalls = <<>>
    /\ tcIdx = 0
    /\ modelCalls = 0
    /\ execLog = <<>>
    /\ proc = NoProc
    /\ request = <<>>
    /\ ret = NoRet
    /\ hist = NoHist

\* Date.now(): the clock does not run backwards; two calls can see one value
Now(now) == now \in {clock, clock + 1} /\ now <= StartClock + MaxClock

\* Bun.write(path, text) overwrites the file in place: until it returns the
\* file can hold any proper prefix of the text
Prefixes(text) == {SubSeq(text, 1, k) : k \in 0..(Len(text) - 1)}

Writing(w) == IF w.st = "write" THEN {File(t) : t \in Prefixes(w.buf)} ELSE {}

\* what a reader of current.json, or a crash, can find in it
Observed == {disk} \cup Writing(tw) \cup Writing(mw)

\* SessionManager.load: this.session = existing, when storage.load found a
\* record; a storage.save in progress keeps the object it was given
loadCall ==
    /\ \E file \in Observed :
         /\ session' = IF storageLoad(file).found THEN storageLoad(file).sess ELSE session
         /\ tw' = IF storageLoad(file).found THEN Detach(tw, session) ELSE tw
         /\ ret' = Ret("load", IF storageLoad(file).found THEN "true" ELSE "false")
    /\ UNCHANGED <<dirty, saveTimeout, timers, cmp, disk, mw, arch>>

\* Repl.run: await this.session.load()
Start ==
    /\ pc = "init"
    /\ loadCall
    /\ pc' = "prompt"
    /\ UNCHANGED <<turns, evars, xvars, cvars, hist>>

\* SessionManager.maybeCompress called on sess, up to its await or its return
maybeCompressCall(sess) ==
    IF compressNeeded(sess)
    THEN /\ cmp' = [split |-> splitIndexOf(sess.messages),
                    toSummarize |-> SubSeq(sess.messages, 1, splitIndexOf(sess.messages)),
                    failed |-> FALSE]
         /\ pc' = "digest"
         /\ ret' = Ret("maybeCompress", "pending")
    ELSE /\ cmp' = NoCmp
         /\ pc' = "prompt"
         /\ ret' = Ret("maybeCompress", "false")

\* Repl.run: a line of input that is no command, up to the gateway request
\* of chat (session.addMessage, getMessagesForModel, client.chat)
UserInput ==
    /\ pc = "prompt"
    /\ turns < MaxTurns
    /\ \E input \in Inputs, now \in {clock, clock + 1} :
         /\ Now(now)
         /\ clock' = now
         /\ session' = addMessage(session, "user", input, now)
         /\ inflight' = getMessagesForModel(session')
    /\ markDirty
    /\ turns' = turns + 1
    /\ modelCalls' = 1
    /\ tcIdx' = 0
    /\ execLog' = <<>>
    /\ hist' = [NoHist EXCEPT !.status = "running"]
    /\ pc' = "model"
    /\ plan' = <<>>
    /\ chunks' = <<>>
    /\ fullResponse' = <<>>
    /\ toolCalls' = <<>>
    /\ request' = injectTools(inflight')
    /\ UNCHANGED <<cmp, dvars, nextId, proc, ret>>

\* a test that takes a single request for the answer
HasRequestsSeveral(calls) == Len(calls) > 1

\* if (toolCalls.length > 0)
HasRequests(calls) == Len(calls) > 0

\* chat: the stream is read to its end and parsed.  With requests: the raw
\* response is pushed and the first execution starts.  Without: chat
\* returns fullResponse, Repl.run adds it and calls maybeCompress.
GatewayRespond ==
    /\ pc = "model"
    /\ \E p \in (IF modelCalls < MaxModelCalls THEN Responses ELSE AnswerPlans) :
       \E cs \in Chunkings(Render(p)), now \in {clock, clock + 1} :
         /\ Now(now)
         /\ plan' = p
         /\ chunks' = cs
         /\ fullResponse' = Accumulate(cs, <<>>)
         /\ toolCalls' = parseToolCalls(fullResponse')
         /\ IF HasRequests(toolCalls')
            THEN /\ inflight' = Append(inflight, ChatMessage("assistant", fullResponse'))
                 /\ tcIdx' = 1
                 /\ execLog' = <<>>
                 /\ pc' = "exec"
                 /\ UNCHANGED <<session, dirty, saveTimeout, timers, cmp, clock, ret, hist>>
            ELSE /\ clock' = now
                 /\ session' = addMessage(session, "assistant", fullResponse', now)
                 /\ markDirty
                 /\ maybeCompressCall(session')
                 /\ hist' = [hist EXCEPT !.status = "ok", !.answer = fullResponse']
                 /\ UNCHANGED <<inflight, tcIdx, execLog>>
    /\ UNCHANGED <<turns, dvars, nextId, modelCalls, proc, request>>

\* chat: the gateway call or the stream throws; Repl.run catches and prompts
GatewayFail ==
    /\ pc = "model"
    /\ pc' = "prompt"
    /\ hist' = [hist EXCEPT !.status = "failed"]
    /\ ret' = Ret("chat", "error")
    /\ UNCHANGED <<turns, mvars, dvars, evars, xvars, cvars>>

\* a loop that takes the calls last to first: the ordering property is
\* checked against it
CurrentCallReversed(calls, idx) == calls[Len(calls) - idx + 1]

\* for (const tc of toolCalls): the call taken at the idx-th iteration
CurrentCall(calls, idx) == calls[idx]

\* a loop without the catch: the error leaves chat
AfterExecutionRethrows(threw, last) ==
    IF threw THEN "prompt" ELSE IF last THEN "model" ELSE "exec"

\* a loop that returns after the last execution instead of recursing
AfterExecutionReturns(threw, last) == IF last THEN "prompt" ELSE "exec"

\* where chat goes after one execution: the next call, or the next round
AfterExecution(threw, last) == IF last THEN "model" ELSE "exec"

\* result of the try/catch around tool.execute
ExecutionResult(name, threw, text) == IF threw THEN ThrownResult(name) ELSE text

\* what chat does for the idx-th request of the response of a round, with
\* the result callback moved before the execution
ExecutionEventsEarlyResult(round, idx) ==
    [k \in 1..4 |-> [ev |-> <<"onToolCall", "onToolResult", "resolved", "pushed">>[k],
                     round |-> round, idx |-> idx]]

\* what chat does for the idx-th request of the response of a round:
\* onToolCall, await tool.execute, onToolResult, messages.push
ExecutionEvents(round, idx) ==
    [k \in 1..4 |-> [ev |-> <<"onToolCall", "resolved", "onToolResult", "pushed">>[k],
                     round |-> round, idx |-> idx]]

\* chat: one iteration of the loop over toolCalls.  The tools other than
\* todo return a text or throw; todo works on the session and returns.
ToolStep ==
    /\ pc = "exec"
    /\ \E threw \in BOOLEAN :
         LET tc == CurrentCall(toolCalls, tcIdx)
             isTodo == tc.name = <<"todo">>
             td == todoExecute(tc.arguments, session.todos, Uuid(nextId + 1), clock)
             result == IF ~getToolByName(tc.name) THEN <<"Unknown tool: ">> \o tc.name
                       ELSE ExecutionResult(tc.name, threw, IF isTodo THEN td.text ELSE <<"output">>)
             content == ToolResultContent(tc.name, result)
         IN /\ isTodo => ~threw
            /\ session' = IF isTodo THEN [session EXCEPT !.todos = td.todos] ELSE session
            /\ IF isTodo /\ td.marked THEN markDirty ELSE UNCHANGED <<dirty, saveTimeout, timers>>
            /\ nextId' = IF isTodo /\ Len(td.todos) > Len(session.todos) THEN nextId + 1 ELSE nextId
            /\ inflight' = Append(inflight, ChatMessage("user", content))
            /\ execLog' = Append(execLog, [call |-> tc, threw |-> threw, result |-> result])
            /\ hist' = [hist EXCEPT !.results = Append(@, content),
                                    !.added = IF nextId' > nextId THEN @ \cup {Uuid(nextId')} ELSE @,
                                    !.events = @ \o ExecutionEvents(modelCalls, tcIdx)]
            /\ pc' = AfterExecution(threw, tcIdx = Len(toolCalls))
    /\ tcIdx' = tcIdx + 1
    /\ modelCalls' = IF pc' = "model" THEN modelCalls + 1 ELSE modelCalls
    /\ request' = IF pc' = "model" THEN injectTools(inflight') ELSE request
    /\ UNCHANGED <<turns, cmp, dvars, clock, plan, chunks, fullResponse, toolCalls, proc, ret>>

\* maybeCompress after its await: the digest request has returned or failed
DigestReturn ==
    /\ pc = "digest"
    /\ \E reply \in DigestReplies :
         /\ session' = applyCompress(session, cmp.split, cmp.toSummarize,
                                     summarize(cmp.toSummarize, reply))
         /\ cmp' = [NoCmp EXCEPT !.failed = ~reply.ok]
    /\ markDirty
    /\ pc' = "prompt"
    /\ ret' = [ret EXCEPT !.val = "true"]
    /\ UNCHANGED <<turns, dvars, evars, xvars, cvars, hist>>

\* SessionManager.save up to its await: the timer is cleared, storage.save called
saveCall ==
    /\ saveTimeout' = "null"
    /\ timers' = [clearTimeout(timers) EXCEPT !.handle = 0]
    /\ mw' = SaveCalled
    /\ UNCHANGED <<session, dirty, cmp, disk, tw, arch>>

\* /quit: await this.session.save()
Quit ==
    /\ pc = "prompt"
    /\ saveCall
    /\ pc' = "quitting"
    /\ UNCHANGED <<turns, evars, xvars, cvars, ret, hist>>

MainStringify ==
    /\ mw.st = "mkdir"
    /\ mw' = Stringified(mw, session)
    /\ UNCHANGED <<pc, turns, mvars, disk, tw, arch, evars, xvars, cvars, ret, hist>>

\* the write of SessionManager.save returned: this.dirty = false
MainWritten ==
    /\ mw.st = "write"
    /\ disk' = File(mw.buf)
    /\ mw' = Idle
    /\ dirty' = FALSE
    /\ pc' = IF pc = "quitting" THEN "exited"
             ELSE IF pc = "archiving" THEN "archive_mkdir" ELSE "prompt"
    /\ ret' = IF pc = "archiving" THEN ret ELSE Ret("save", "done")
    /\ UNCHANGED <<turns, session, saveTimeout, timers, cmp, tw, arch, evars, xvars, cvars, hist>>

Next ==
    \/ Start
    \/ UserInput
    \/ GatewayRespond
    \/ GatewayFail
    \/ ToolStep
    \/ DigestReturn
    \/ Quit
    \/ MainStringify
    \/ MainWritten
    \/ TimerFire
    \/ TimerStringify
    \/ TimerWritten

Spec == Init /\ [][Next]_vars

\* the conversation loop alone: runs in which no round outlasts the autosave
\* delay, so the timer does not fire, and that end without /quit
NextChat ==
    \/ Start
    \/ UserInput
    \/ GatewayRespond
    \/ GatewayFail
    \/ ToolStep
    \/ DigestReturn

SpecChat == Init /\ [][NextChat]_vars

(***************************************************************************)
(* The extractor on its own: every text of up to MaxSegs segments           *)
(***************************************************************************)
MaxSegs == 3

ProseSegs == {ProseSeg(<<"w", WS>>), ProseSeg(<<RB>>), ProseSeg(<<LB, WS>>),
              ProseSeg(Header("nope", FALSE))}

ReqSegs == {ReqSeg("bash", v, FALSE) : v \in ArgValues}
           \cup {ReqSeg("todo", ArgTwo, TRUE), ReqSeg("nope", ArgFlat, FALSE)}

BadSegs == {BadSeg("bash", b) : b \in BadPayloads}

FuncSegs == {FuncSeg("todo", v, FALSE) : v \in {ArgFlat, ArgNested2, ArgParenStr}}
            \cup {FuncSeg("bash", ArgTwo, TRUE), FuncSeg("ls", ArgFlat, FALSE)}

Segments == ProseSegs \cup ReqSegs \cup BadSegs \cup FuncSegs

Plans == UNION {[1..n -> Segments] : n \in 1..MaxSegs}

InitExtract ==
    /\ plan \in Plans
    /\ fullResponse = Render(plan)
    /\ chunks = <<fullResponse>>
    /\ toolCalls = <<>>
    /\ pc = "extract"
    /\ turns = 0
    /\ session = createEmptySession(Uuid(1), PRIMARY_MODEL, StartClock)
    /\ dirty = FALSE
    /\ saveTimeout = "null"
    /\ timers = NoTimers
    /\ cmp = NoCmp
    /\ disk = Absent
    /\ tw = Idle
    /\ mw = Idle
    /\ arch = <<>>
    /\ clock = StartClock
    /\ nextId = 1
    /\ inflight = <<>>
    /\ tcIdx = 0
    /\ modelCalls = 0
    /\ execLog = <<>>
    /\ proc = NoProc
    /\ request = <<>>
    /\ ret = NoRet
    /\ hist = NoHist

Extract ==
    /\ pc = "extract"
    /\ toolCalls' = parseToolCalls(fullResponse)
    /\ pc' = "extracted"
    /\ UNCHANGED <<turns, mvars, dvars, evars, plan, chunks, fullResponse, request, cvars, ret, hist>>

NextExtract == Extract

SpecExtract == InitExtract /\ [][NextExtract]_vars

\* the segments of the plan of a kind, in order
RECURSIVE OfKind(_, _)
OfKind(p, kinds) ==
    IF p = <<>> THEN <<>>
    ELSE IF Head(p).kind \in kinds THEN <<Head(p)>> \o OfKind(Tail(p), kinds)
    ELSE OfKind(Tail(p), kinds)

IsRequest(call, seg) == call.name = <<seg.name>> /\ call.arguments = seg.val

\* one well-formed request with a registered name, the rest prose
OneRequestPlan ==
    /\ Len(OfKind(plan, {"req"})) = 1
    /\ Len(OfKind(plan, {"bad", "func"})) = 0
    /\ getToolByName(<<OfKind(plan, {"req"})[1].name>>)

\* C2: a well-formed request (registered name, JSON object arguments) embedded
\* in larger text is extracted as exactly that one request, same name and same
\* arguments, whatever the prose around it and whatever the argument values hold.
C2_EmbeddedRequestRecovered ==
    (pc = "extracted" /\ OneRequestPlan)
        => /\ Len(toolCalls) = 1
           /\ IsRequest(toolCalls[1], OfKind(plan, {"req"})[1])

\* one occurrence with an unparseable payload, then one well-formed request
\* with a registered name; anything else is prose
BadThenGoodPlan ==
    /\ Len(OfKind(plan, {"req", "bad", "func"})) = 2
    /\ OfKind(plan, {"req", "bad", "func"})[1].kind = "bad"
    /\ OfKind(plan, {"req", "bad", "func"})[2].kind = "req"
    /\ getToolByName(<<OfKind(plan, {"req"})[1].name>>)

\* C3: of a malformed request followed by a well-formed one, exactly the
\* well-formed one is extracted.
C3_MalformedThenWellFormed ==
    (pc = "extracted" /\ BadThenGoodPlan)
        => /\ Len(toolCalls) = 1
           /\ IsRequest(toolCalls[1], OfKind(plan, {"req"})[1])

(***************************************************************************)
(* SessionManager on its own: its operations called one after another on    *)
(* a loaded Transcript, the autosave timer running                          *)
(***************************************************************************)
\* calls of the operations in one run
MaxCalls == 3
MaxTodos == 1

\* records an earlier run left: over the threshold with the long message
\* summarized or kept, compacted once before, and a short one
StoredTranscripts ==
    {Transcript(12, {1}, {}),
     Transcript(11, {5}, {2}),
     [Transcript(12, {12}, {}) EXCEPT !.summary = Str(<<"digest">>), !.summaryUpTo = 1],
     Transcript(3, {}, {})}

\* a record cut short: what a crash in the middle of a write left
CutRecord == File(SubSeq(JSONstringifySession(Transcript(3, {}, {})), 1, 4))

SessionDisks == {Absent, CutRecord}
                \cup {File(JSONstringifySession(t)) : t \in StoredTranscripts}

InitSession ==
    /\ pc = "init"
    /\ turns = 0
    /\ session = createEmptySession(Uuid(1), PRIMARY_MODEL, StartClock)
    /\ dirty = FALSE
    /\ saveTimeout = "null"
    /\ timers = NoTimers
    /\ cmp = NoCmp
    /\ disk \in SessionDisks
    /\ tw = Idle
    /\ mw = Idle
    /\ arch = <<>>
    /\ clock = StartClock
    /\ nextId = 1
    /\ inflight = <<>>
    /\ plan = <<>>
    /\ chunks = <<>>
    /\ fullResponse = <<>>
    /\ toolCalls = <<>>
    /\ tcIdx = 0
    /\ modelCalls = 0
    /\ execLog = <<>>
    /\ proc = NoProc
    /\ request = <<>>
    /\ ret = NoRet
    /\ hist = NoHist

\* session.addMessage(role, content)
AddMessage ==
    /\ pc = "prompt"
    /\ turns < MaxCalls
    /\ \E content \in {<<"w">>, <<"lorem">>}, now \in {clock, clock + 1} :
         /\ Now(now)
         /\ clock' = now
         /\ session' = addMessage(session, "user", content, now)
    /\ markDirty
    /\ turns' = turns + 1
    /\ ret' = Ret("addMessage", "done")
    /\ UNCHANGED <<pc, cmp, dvars, nextId, xvars, cvars, hist>>

\* session.maybeCompress(), up to its await or its return
MaybeCompress ==
    /\ pc = "prompt"
    /\ turns < MaxCalls
    /\ turns' = turns + 1
    /\ maybeCompressCall(session)
    /\ UNCHANGED <<session, dirty, saveTimeout, timers, dvars, evars, xvars, cvars, hist>>

\* session.save(), up to its await
Save ==
    /\ pc = "prompt"
    /\ turns < MaxCalls
    /\ turns' = turns + 1
    /\ saveCall
    /\ pc' = "saving"
    /\ UNCHANGED <<evars, xvars, cvars, ret, hist>>

\* session.load() on a manager in use
Load ==
    /\ pc = "prompt"
    /\ turns < MaxCalls
    /\ turns' = turns + 1
    /\ loadCall
    /\ UNCHANGED <<pc, evars, xvars, cvars, hist>>

ArgsId(action) == ObjV(<<[k |-> <<"action">>, v |-> StrV(<<action>>)],
                         [k |-> <<"id">>, v |-> StrV(<<Uuid(2)>>)]>>)

TodoParams == {ArgsAdd, ArgsId("complete"), ArgsId("remove"),
               ObjV(<<[k |-> <<"action">>, v |-> StrV(<<"clear_completed">>)]>>)}

\* the todo tool on the session: addTodo, updateTodo, removeTodo, clearCompletedTodos
TodoOp ==
    /\ pc = "prompt"
    /\ \E params \in TodoParams :
         LET td == todoExecute(params, session.todos, Uuid(nextId + 1), clock)
         IN /\ Len(td.todos) > Len(session.todos) => nextId <= MaxTodos
            /\ session' = [session EXCEPT !.todos = td.todos]
            /\ IF td.marked THEN markDirty ELSE UNCHANGED <<dirty, saveTimeout, timers>>
            /\ nextId' = IF Len(td.todos) > Len(session.todos) THEN nextId + 1 ELSE nextId
    /\ turns < MaxCalls
    /\ turns' = turns + 1
    /\ ret' = Ret("todo", "done")
    /\ UNCHANGED <<pc, cmp, dvars, clock, xvars, cvars, hist>>

NextSession ==
    \/ Start
    \/ AddMessage
    \/ MaybeCompress
    \/ DigestReturn
    \/ Save
    \/ MainStringify
    \/ MainWritten
    \/ Load
    \/ TodoOp
    \/ TimerFire
    \/ TimerStringify
    \/ TimerWritten

SpecSession == InitSession /\ [][NextSession]_vars

(***************************************************************************)
(* Properties of the conversation loop (Spec)                               *)
(***************************************************************************)
Contains(text, tok) == \E i \in 1..Len(text) : text[i] = tok

RECURSIVE Concat(_)
Concat(cs) == IF cs = <<>> THEN <<>> ELSE Head(cs) \o Concat(Tail(cs))

\* C1: the requests extracted from a response are in left-to-right textual
\* order (their positions in the text increase, and when every request of the
\* text is extracted they are the text's requests one by one), and chat
\* executes them in exactly that order, all of them before the next round.
C1_ExecutionInTextOrder ==
    /\ \A i, j \in 1..Len(toolCalls) : i < j => toolCalls[i].index < toolCalls[j].index
    /\ (Len(OfKind(plan, {"req"})) >= 2 /\ Len(toolCalls) = Len(OfKind(plan, {"req"})))
           => \A i \in 1..Len(toolCalls) : IsRequest(toolCalls[i], OfKind(plan, {"req"})[i])
    /\ (pc = "exec" \/ (pc = "model" /\ modelCalls > 1))
           => /\ Len(execLog) = (IF pc = "exec" THEN tcIdx - 1 ELSE Len(toolCalls))
              /\ \A i \in 1..Len(execLog) : execLog[i].call = toolCalls[i]

\* two requests of one response executed, bash before todo as in the text
C1_Witness ==
    /\ pc = "model"
    /\ Len(OfKind(plan, {"req"})) = 2
    /\ Len(execLog) = 2
    /\ execLog[1].call.name = <<"bash">>
    /\ execLog[2].call.name = <<"todo">>

ExecutionThrew ==
    /\ pc = "exec"
    /\ Len(execLog') = Len(execLog) + 1
    /\ execLog'[Len(execLog')].threw

\* C4: when a capability execution throws, chat appends a result message
\* whose text contains the error indicator, goes on with the remaining
\* requests, and after the last one requests a further model round; it
\* neither terminates nor rejects.
C4_ThrowBecomesResult ==
    /\ [][ExecutionThrew =>
            /\ inflight' = Append(inflight, inflight'[Len(inflight')])
            /\ inflight'[Len(inflight')].role = "user"
            /\ Contains(inflight'[Len(inflight')].content, "Error executing ")
            /\ pc' = (IF tcIdx < Len(toolCalls) THEN "exec" ELSE "model")
            /\ (pc' = "model" => modelCalls' = modelCalls + 1)
            /\ hist'.status = "running"]_vars
    /\ [](pc = "model" /\ modelCalls > 1 => Len(execLog) = Len(toolCalls))

\* the first of two requests threw, the second ran, the next round is requested
C4_Witness ==
    /\ pc = "model"
    /\ modelCalls = 2
    /\ Len(execLog) = 2
    /\ execLog[1].threw
    /\ ~execLog[2].threw
    /\ Contains(inflight[Len(inflight) - 1].content, "Error executing ")

ZeroRequestRound ==
    /\ pc = "model"
    /\ pc' # "model"
    /\ hist'.status # "failed"
    /\ toolCalls' = <<>>

\* C5: when no request is extracted from the accumulated response, chat
\* returns exactly the in-order concatenation of the streamed fragments as
\* the final answer, executes nothing and appends nothing to the in-flight list.
C5_ZeroRequestsIsAnswer ==
    [][ZeroRequestRound =>
         /\ hist'.status = "ok"
         /\ hist'.answer = Concat(chunks')
         /\ inflight' = inflight
         /\ execLog' = execLog
         /\ session'.todos = session.todos
         /\ pc' \in {"prompt", "digest"}]_vars

\* a response streamed in several fragments, with request-like text that is
\* not extracted, returned as the answer
C5_Witness ==
    /\ hist.status = "ok"
    /\ toolCalls = <<>>
    /\ Len(chunks) = 3
    /\ Len(chunks[1]) > 0
    /\ Len(chunks[3]) > 0
    /\ hist.answer = chunks[1] \o chunks[3]
    /\ Contains(hist.answer, "arguments")

TodoIds(sess) == {sess.todos[i].id : i \in 1..Len(sess.todos)}

\* C6: when the Model Gateway fails in a round, chat fails to its caller,
\* and until a later successful round or an explicit save the durable record
\* holds none of the effects of the requests the round executed.
C6_FailedRoundNotPersisted ==
    (pc = "prompt" /\ hist.status = "failed")
        => /\ ret.op = "chat" /\ ret.val = "error"
           /\ storageLoad(disk).found
                  => hist.added \cap TodoIds(storageLoad(disk).sess) = {}

\* C7: when a round has completed, the Transcript holds a Message for every
\* tool result the round produced.
C7_ToolResultsInTranscript ==
    (pc \in {"prompt", "digest"} /\ hist.status = "ok")
        => \A i \in 1..Len(hist.results) :
               \E j \in 1..Len(session.messages) :
                   session.messages[j].content = hist.results[i]

(***************************************************************************)
(* Properties of the SessionManager (SpecSession)                           *)
(***************************************************************************)
\* a call of maybeCompress that directly follows a call of maybeCompress
SecondRun ==
    /\ pc = "prompt"
    /\ ret.op = "maybeCompress"
    /\ ret'.op = "maybeCompress"
    /\ turns' = turns + 1
    /\ pc' \in {"prompt", "digest"}

\* C8: maybeCompress called directly after maybeCompress, no message added
\* in between, returns false and leaves the session as it is.
C8_SecondCompressIsNoOp ==
    [][SecondRun => /\ ret'.val = "false"
                    /\ pc' = "prompt"
                    /\ session' = session]_vars

\* a compaction, and directly after it a call that returned false although
\* the kept messages alone are over the threshold
C8_Witness ==
    /\ ret.op = "maybeCompress"
    /\ ret.val = "false"
    /\ ret.prev = "true"
    /\ Len(session.messages) = KEEP_RECENT_MESSAGES
    /\ estimateMessagesTokens(session.messages) >= CONTEXT_THRESHOLD

Compacted == pc = "digest" /\ pc' = "prompt"

\* C9: after maybeCompress has summarized, the messages are the last 10 of
\* the list in their order, the summary is not empty, and summaryUpTo is the
\* timestamp of the 11th-from-last message of the list.
C9_CompactionResult ==
    [][Compacted =>
         /\ session'.messages = SubSeq(session.messages,
                                       Len(session.messages) - KEEP_RECENT_MESSAGES + 1,
                                       Len(session.messages))
         /\ ~session'.summary.isNull
         /\ session'.summary.text # <<>>
         /\ session'.summaryUpTo
                = session.messages[Len(session.messages) - KEEP_RECENT_MESSAGES].timestamp]_vars

RecordOf(file) == storageLoad(file).sess

\* C11: the messages compaction folded into the summary (timestamp <=
\* summaryUpTo) are still in the durable record a later save writes: a write
\* of the record of one Transcript drops no message up to the new cutoff.
C11_FoldedMessagesStayOnDisk ==
    [][(storageLoad(disk).found /\ storageLoad(disk').found
          /\ RecordOf(disk').id = RecordOf(disk).id)
         => \A i \in 1..Len(RecordOf(disk).messages) :
               RecordOf(disk).messages[i].timestamp <= RecordOf(disk').summaryUpTo
                  => \E j \in 1..Len(RecordOf(disk').messages) :
                         RecordOf(disk').messages[j] = RecordOf(disk).messages[i]]_vars

\* C12: when the digest request fails, maybeCompress completes all the same:
\* the summary is the fallback text (after the earlier summary, if any), the
\* cutoff and the messages are those of a compaction, and true is returned.
C12_DigestFailureFallsBack ==
    [][(Compacted /\ cmp'.failed)
         => /\ Contains(session'.summary.text, "Previous conversation: ")
            /\ session'.summary.text[Len(session'.summary.text)] \in {" assistant responses.", "."}
            /\ Truthy(session.summary)
                   => SubSeq(session'.summary.text, 1, Len(session.summary.text))
                          = session.summary.text
            /\ session'.messages = SubSeq(session.messages,
                                          Len(session.messages) - KEEP_RECENT_MESSAGES + 1,
                                          Len(session.messages))
            /\ session'.summaryUpTo
                   = session.messages[Len(session.messages) - KEEP_RECENT_MESSAGES].timestamp
            /\ ret'.op = "maybeCompress"
            /\ ret'.val = "true"
            /\ pc' = "prompt"
            /\ dirty']_vars

\* a compaction whose digest request failed, on top of an earlier summary
C12_Witness ==
    /\ cmp.failed
    /\ ret.op = "maybeCompress"
    /\ ret.val = "true"
    /\ Len(session.messages) = KEEP_RECENT_MESSAGES
    /\ Contains(session.summary.text, "digest")
    /\ Contains(session.summary.text, "Previous conversation: ")

\* C13: a load that directly follows a completed save finds the record and
\* yields the Transcript that was saved, whatever the record held before.
C13_SaveLoadRoundTrip ==
    [][(Load /\ ret.op = "save")
         => /\ ret'.val = "true"
            /\ session' = session]_vars

\* C16: what is found in the durable current record at any moment, as a
\* crash at that moment would leave it, is a complete serialisation, never a
\* part of one.
C16_RecordAlwaysWhole ==
    \A file \in Observed :
        (file.exists /\ file # CutRecord) => Parseable(file.text)

\* a load step that finds a record it cannot parse
LoadsCorrupted ==
    /\ Start \/ Load
    /\ \A file \in Observed : file.exists /\ ~Parseable(file.text)

AfterFailedWriteClears(d) == FALSE

\* SessionManager.save and the timer callback assign this.dirty = false after
\* the await of storage.save: when it throws, the assignment is not reached
AfterFailedWrite(d) == d

\* Bun.file(path).exists(): true for a regular file, false for a directory
BunFileExists(present, isDirectory) == present /\ ~isDirectory

\* the SessionMetadata listArchived pushes for a record
Metadata(sess) ==
    [id |-> sess.id, projectRoot |-> sess.projectRoot, model |-> sess.model,
     messageCount |-> Len(sess.messages), created |-> sess.created,
     updated |-> sess.updated]

\* for (const file of files): the files that do not parse are skipped
RECURSIVE Entries(_)
Entries(files) ==
    IF files = <<>> THEN <<>>
    ELSE (IF Parseable(Head(files)) THEN <<Metadata(JSONparseSession(Head(files)))>>
          ELSE <<>>) \o Entries(Tail(files))

\* entries.sort((a, b) => b.updated - a.updated): stable, newest first
RECURSIVE InsertByUpdated(_, _)
InsertByUpdated(e, sorted) ==
    IF sorted = <<>> THEN <<e>>
    ELSE IF Head(sorted).updated < e.updated THEN <<e>> \o sorted
    ELSE <<Head(sorted)>> \o InsertByUpdated(e, Tail(sorted))

RECURSIVE SortByUpdated(_)
SortByUpdated(entries) ==
    IF entries = <<>> THEN <<>>
    ELSE InsertByUpdated(entries[Len(entries)],
                         SortByUpdated(SubSeq(entries, 1, Len(entries) - 1)))

\* SessionStorage.listArchived on the archive directory holding files
listArchived(files) ==
    IF ~BunFileExists(files # <<>>, TRUE) THEN <<>>
    ELSE SortByUpdated(Entries(files))

\* session.archive(), up to the await of this.save()
Archive ==
    /\ pc = "prompt"
    /\ turns < MaxCalls
    /\ turns' = turns + 1
    /\ saveCall
    /\ pc' = "archiving"
    /\ hist' = [hist EXCEPT !.before = disk, !.archived = session]
    /\ UNCHANGED <<evars, xvars, cvars, ret>>

\* storage.archive: mkdir -p and Bun.write(archivePath, JSON.stringify(session))
\* returned
ArchiveWritten ==
    /\ pc = "archive_mkdir"
    /\ arch' = Append(arch, JSONstringifySession(session))
    /\ pc' = "archive_rm"
    /\ UNCHANGED <<turns, mvars, disk, tw, mw, evars, xvars, cvars, ret, hist>>

\* storage.archive: mkdir -p or Bun.write threw, and archive with it
ArchiveWriteFails ==
    /\ pc = "archive_mkdir"
    /\ pc' = "prompt"
    /\ dirty' = AfterFailedWrite(dirty)
    /\ ret' = Ret("archive", "error")
    /\ UNCHANGED <<turns, session, saveTimeout, timers, cmp, dvars, evars, xvars, cvars, hist>>

\* storage.archive: rm of the current record returned (when there was one),
\* then this.session = this.createEmptySession(projectRoot, model)
ArchiveRemoved ==
    /\ pc = "archive_rm"
    /\ disk' = Absent
    /\ session' = createEmptySession(Uuid(nextId + 1), session.model, clock)
    /\ nextId' = nextId + 1
    /\ tw' = Detach(tw, session)
    /\ pc' = "prompt"
    /\ ret' = Ret("archive", "done")
    /\ UNCHANGED <<turns, dirty, saveTimeout, timers, cmp, mw, arch, clock, xvars, cvars, hist>>

\* storage.archive: rm threw, and archive with it
ArchiveRemoveFails ==
    /\ pc = "archive_rm"
    /\ disk.exists
    /\ pc' = "prompt"
    /\ dirty' = AfterFailedWrite(dirty)
    /\ ret' = Ret("archive", "error")
    /\ UNCHANGED <<turns, session, saveTimeout, timers, cmp, dvars, evars, xvars, cvars, hist>>

\* the storage.save of SessionManager.save threw (mkdir or the write refused)
MainWriteFails ==
    /\ mw.st \in {"mkdir", "write"}
    /\ mw' = Idle
    /\ dirty' = AfterFailedWrite(dirty)
    /\ pc' = IF pc = "quitting" THEN "exited" ELSE "prompt"
    /\ ret' = Ret(IF pc = "archiving" THEN "archive" ELSE "save", "error")
    /\ UNCHANGED <<turns, session, saveTimeout, timers, cmp, disk, tw, arch, evars, xvars, cvars, hist>>

\* the storage.save of the timer callback threw
TimerWriteFails ==
    /\ tw.st \in {"mkdir", "write"}
    /\ tw' = Idle
    /\ dirty' = AfterFailedWrite(dirty)
    /\ UNCHANGED <<pc, turns, session, saveTimeout, timers, cmp, disk, mw, arch, evars, xvars, cvars, ret, hist>>

NextStore ==
    \/ Start
    \/ AddMessage
    \/ Save
    \/ Archive
    \/ MainStringify
    \/ MainWritten
    \/ MainWriteFails
    \/ ArchiveWritten
    \/ ArchiveWriteFails
    \/ ArchiveRemoved
    \/ ArchiveRemoveFails
    \/ TimerFire
    \/ TimerStringify
    \/ TimerWritten
    \/ TimerWriteFails

SpecStore == InitSession /\ [][NextStore]_vars

\* a step in which a call of archive returns or throws
ArchiveReturns == pc \in {"archiving", "archive_mkdir", "archive_rm"} /\ pc' = "prompt"

\* C14: whenever a call of archive ends, by returning or by throwing at any
\* of its steps, either the archive holds the snapshot of the session it was
\* called on and the current record is gone, or the current record is what it
\* was when archive was called.
C14_ArchiveAtomic ==
    [][ArchiveReturns
         => \/ /\ \E i \in 1..Len(arch') : arch'[i] = JSONstringifySession(hist.archived)
               /\ disk' = Absent
            \/ disk' = hist.before]_vars

\* C15: once archive has returned, listArchived has an entry with the id of
\* the archived session, and the session in memory is a fresh one: another
\* id, no messages, null summary, summaryUpTo 0, no todos, the project root
\* and the model of the archived one.
C15_ArchivedIsListed ==
    (ret.op = "archive" /\ ret.val = "done")
        => /\ \E i \in 1..Len(listArchived(arch)) :
                listArchived(arch)[i].id = hist.archived.id
           /\ session.id # hist.archived.id
           /\ session.messages = <<>>
           /\ session.summary = Null
           /\ session.summaryUpTo = 0
           /\ session.todos = <<>>
           /\ session.projectRoot = hist.archived.projectRoot
           /\ session.model = hist.archived.model

\* a step in which a persistence write fails
WriteFails == TimerWriteFails \/ MainWriteFails \/ ArchiveWriteFails \/ ArchiveRemoveFails

\* C19: a persistence write that fails (of the timer callback, of save, of
\* either step of archive) leaves the session in memory as it was, messages,
\* summary, summaryUpTo, todos and id, and leaves the dirty flag as it was.
C19_FailedWriteKeepsSession ==
    [][WriteFails => /\ session' = session
                     /\ dirty' = dirty]_vars

C19_Witness ==
    /\ ret.op = "archive"
    /\ ret.val = "error"
    /\ dirty
    /\ session = hist.archived
    /\ Len(session.messages) > 0
    /\ mw = Idle


(***************************************************************************)
(* A process that keeps running with a store that takes every write         *)
(***************************************************************************)
NextLive ==
    \/ Start
    \/ AddMessage
    \/ Save
    \/ MainStringify
    \/ MainWritten
    \/ TimerFire
    \/ TimerStringify
    \/ TimerWritten

\* a timer that is due fires, and a write that was started returns; nothing
\* obliges the caller to make another call
SpecLive ==
    /\ InitSession
    /\ [][NextLive]_vars
    /\ WF_vars(TimerFire)
    /\ WF_vars(TimerStringify)
    /\ WF_vars(TimerWritten)
    /\ WF_vars(MainStringify)
    /\ WF_vars(MainWritten)

\* the durable current record is the session in memory
Persisted == disk = File(JSONstringifySession(session))

\* C17: from every state in which the session has a mutation that is not
\* saved yet (the dirty flag is set), the process reaches a state in which
\* the current record on disk equals the session in memory; the mutations
\* are finitely many, so the last of them is persisted too.
C17_EventuallyPersisted == dirty ~> Persisted


(***************************************************************************)
(* The todo capability (SpecChat)                                           *)
(***************************************************************************)
\* the call about to be executed asks todo to add a task with a content
TodoAddCalled ==
    /\ pc = "exec"
    /\ CurrentCall(toolCalls, tcIdx).name = <<"todo">>
    /\ Member(CurrentCall(toolCalls, tcIdx).arguments, "action") = StrV(<<"add">>)
    /\ TruthyVal(Member(CurrentCall(toolCalls, tcIdx).arguments, "content"))

\* C20: executing todo with action add and a non-empty content, with the
\* session as context, appends exactly one task to the task list, with status
\* pending and the content given, leaves the tasks before it as they were, and
\* returns (without throwing) a text that contains the id of the new task.
C20_TodoAddAppendsOnePending ==
    [][(TodoAddCalled /\ ToolStep)
         => /\ Len(session'.todos) = Len(session.todos) + 1
            /\ SubSeq(session'.todos, 1, Len(session.todos)) = session.todos
            /\ session'.todos[Len(session'.todos)].status = "pending"
            /\ session'.todos[Len(session'.todos)].content
                 = TextOf(Member(CurrentCall(toolCalls, tcIdx).arguments, "content"))
            /\ ~execLog'[Len(execLog')].threw
            /\ Contains(execLog'[Len(execLog')].result,
                        session'.todos[Len(session'.todos)].id)]_vars

C20_Witness ==
    /\ Len(execLog) > 0
    /\ execLog[Len(execLog)].call.name = <<"todo">>
    /\ Len(session.todos) = 1
    /\ session.todos[1].status = "pending"
    /\ session.todos[1].content = <<"fix">>
    /\ Contains(execLog[Len(execLog)].result, session.todos[1].id)
    /\ dirty


(***************************************************************************)
(* bashTool.execute inside the conversation loop                            *)
(***************************************************************************)
\* what SIGTERM does to the spawned bash: it ends with all it started; it has
\* the signal trapped or ignored; it ends, but a process it started lives on
\* with the pipes of stdout and stderr open
CommandKinds == {"ends", "ignores", "leaves_child"}

\* const timeout = (params.timeout as number) || 30000
bashTimeout(params) ==
    IF TruthyVal(Member(params, "timeout")) THEN TextOf(Member(params, "timeout"))
    ELSE <<"30000">>

TimedOutMark == "\n(Command timed out after "

\* the text the handler of 'close' resolves the promise with
bashResult(stdout, stderr, killed, timeout, code) ==
    LET out == IF stdout # <<>> THEN <<"stdout:\n">> \o stdout ELSE <<>>
        err == IF stderr # <<>>
               THEN (IF stdout # <<>> THEN <<"\n">> ELSE <<>>) \o <<"stderr:\n">> \o stderr
               ELSE <<>>
        mark == IF killed THEN <<TimedOutMark>> \o timeout \o <<"ms)">> ELSE <<>>
        exit == IF code # "0" /\ code # "null" THEN <<"\n(Exit code: ", code, ")">> ELSE <<>>
        result == out \o err \o mark \o exit
    IN IF result = <<>> THEN <<"(No output)">> ELSE result

\* chat reaches await tool.execute for a bash request: spawn('bash', ['-c', command])
BashSpawn ==
    /\ pc = "exec"
    /\ CurrentCall(toolCalls, tcIdx).name = <<"bash">>
    /\ \E kind \in CommandKinds : proc' = [NoProc EXCEPT !.st = "running", !.kind = kind]
    /\ pc' = "bash"
    /\ hist' = [hist EXCEPT !.events = @ \o SubSeq(ExecutionEvents(modelCalls, tcIdx), 1, 1)]
    /\ UNCHANGED <<turns, mvars, dvars, evars, xvars, inflight, tcIdx, modelCalls, execLog, ret>>

\* the setTimeout callback: killed = true; proc.kill('SIGTERM')
BashTimeout ==
    /\ proc.st \in {"running", "exited"}
    /\ ~proc.killed
    /\ proc' = [proc EXCEPT !.killed = TRUE]
    /\ UNCHANGED <<pc, turns, mvars, dvars, evars, xvars, inflight, tcIdx, modelCalls, execLog, ret, hist>>

\* SIGTERM ends a bash that does not ignore it; what it started may live on
BashTerminated ==
    /\ proc.st = "running"
    /\ proc.killed
    /\ proc.kind # "ignores"
    /\ proc' = [proc EXCEPT !.st = "exited", !.held = (proc.kind = "leaves_child")]
    /\ UNCHANGED <<pc, turns, mvars, dvars, evars, xvars, inflight, tcIdx, modelCalls, execLog, ret, hist>>

\* the command comes to its end by itself, with all it started
BashEnds ==
    /\ proc.st = "running"
    /\ \E code \in {"0", "1"} : proc' = [proc EXCEPT !.st = "exited", !.code = code]
    /\ UNCHANGED <<pc, turns, mvars, dvars, evars, xvars, inflight, tcIdx, modelCalls, execLog, ret, hist>>

\* the process that outlived bash ends and closes the pipes
BashChildEnds ==
    /\ proc.st = "exited"
    /\ proc.held
    /\ proc' = [proc EXCEPT !.held = FALSE]
    /\ UNCHANGED <<pc, turns, mvars, dvars, evars, xvars, inflight, tcIdx, modelCalls, execLog, ret, hist>>

\* 'close': the process has ended and its pipes are closed.  clearTimeout,
\* resolve(result); chat pushes the result message and goes on
BashClose ==
    /\ pc = "bash"
    /\ proc.st = "exited"
    /\ ~proc.held
    /\ \E stdout \in {<<>>, <<"out">>} :
         LET tc == CurrentCall(toolCalls, tcIdx)
             result == bashResult(stdout, <<>>, proc.killed, bashTimeout(tc.arguments), proc.code)
             content == ToolResultContent(tc.name, result)
         IN /\ inflight' = Append(inflight, ChatMessage("user", content))
            /\ execLog' = Append(execLog, [call |-> tc, threw |-> FALSE, result |-> result])
            /\ hist' = [hist EXCEPT !.results = Append(@, content),
                                    !.events = @ \o SubSeq(ExecutionEvents(modelCalls, tcIdx), 2, 4)]
            /\ pc' = AfterExecution(FALSE, tcIdx = Len(toolCalls))
    /\ proc' = NoProc
    /\ tcIdx' = tcIdx + 1
    /\ modelCalls' = IF pc' = "model" THEN modelCalls + 1 ELSE modelCalls
    /\ request' = IF pc' = "model" THEN injectTools(inflight') ELSE request
    /\ UNCHANGED <<turns, mvars, dvars, evars, plan, chunks, fullResponse, toolCalls, ret>>

\* the executions of the other tools, in one step
ToolStepOther ==
    /\ pc = "exec"
    /\ CurrentCall(toolCalls, tcIdx).name # <<"bash">>
    /\ ToolStep

NextBash ==
    \/ Start
    \/ UserInput
    \/ GatewayRespond
    \/ GatewayFail
    \/ ToolStepOther
    \/ DigestReturn
    \/ BashSpawn
    \/ BashTimeout
    \/ BashTerminated
    \/ BashEnds
    \/ BashChildEnds
    \/ BashClose

\* the timer set at spawn fires unless 'close' clears it first, the signal
\* is delivered, and 'close' is emitted once the pipes are closed; nothing
\* obliges a command to end by itself
SpecBash ==
    /\ Init
    /\ [][NextBash]_vars
    /\ WF_vars(BashTimeout)
    /\ WF_vars(BashTerminated)
    /\ WF_vars(BashClose)

\* C21: once the timeout callback of a bash execution has run, the execute
\* call resolves, whatever the command is, with a result that carries the
\* timed-out mark, and chat appends it as the result of the request and is
\* out of the execution.
C21_TimedOutBashResolves ==
    (pc = "bash" /\ proc.killed)
        ~> (/\ pc # "bash"
            /\ Len(execLog) > 0
            /\ execLog[Len(execLog)].call.name = <<"bash">>
            /\ Contains(execLog[Len(execLog)].result, TimedOutMark)
            /\ inflight[Len(inflight)].content
                 = ToolResultContent(<<"bash">>, execLog[Len(execLog)].result))


(***************************************************************************)
(* SessionManager.clear                                                     *)
(***************************************************************************)
\* session.clear(): this.session = createEmptySession(projectRoot, model);
\* this.markDirty()
Clear ==
    /\ pc = "prompt"
    /\ turns < MaxCalls
    /\ turns' = turns + 1
    /\ \E now \in {clock, clock + 1} :
         /\ Now(now)
         /\ clock' = now
         /\ session' = createEmptySession(Uuid(nextId + 1), session.model, now)
    /\ nextId' = nextId + 1
    /\ tw' = Detach(tw, session)
    /\ markDirty
    /\ ret' = Ret("clear", "done")
    /\ UNCHANGED <<pc, cmp, disk, mw, arch, xvars, cvars, hist>>

NextClear ==
    \/ Start
    \/ AddMessage
    \/ Clear
    \/ TimerFire
    \/ TimerStringify
    \/ TimerWritten

SpecClear == InitSession /\ [][NextClear]_vars

\* C22: as long as clear is the last call made on the session, the current
\* record on disk is not the emptied session clear put in memory: clear does
\* not reach the disk.
C22_ClearLeavesRecord ==
    ret.op = "clear" => disk # File(JSONstringifySession(session))


(***************************************************************************)
(* The states of chat (SpecChat)                                            *)
(***************************************************************************)
\* a call of chat is in progress, awaiting the model or executing requests;
\* or it has ended, by returning the answer or by throwing
AwaitingModel == hist.status = "running" /\ pc = "model"
Executing == hist.status = "running" /\ pc = "exec"
Done == hist.status \in {"ok", "failed"}

Grown(base, i) == inflight[base + i]

\* C24: a round whose response yields n >= 1 requests appends to the
\* in-flight list one assistant message holding the raw response, then, one
\* execution at a time, one user message per request, in request order,
\* holding the result text of that request; when the round is over the list
\* has grown by these n+1 messages and by nothing else.
C24_RoundGrowsInflight ==
    /\ [][/\ (AwaitingModel /\ Executing')
                => inflight' = Append(inflight, [role |-> "assistant", content |-> fullResponse'])
          /\ Executing
                => /\ Len(execLog') = Len(execLog) + 1
                   /\ inflight' = Append(inflight,
                          [role |-> "user",
                           content |-> <<"Tool result for ">> \o toolCalls[tcIdx].name
                                       \o <<":\n">> \o execLog'[tcIdx].result])]_vars
    /\ []((pc = "model" /\ modelCalls > 1)
            => LET n == Len(toolCalls)
                   base == Len(inflight) - (n + 1)
               IN /\ n >= 1
                  /\ base >= 1
                  /\ Len(execLog) = n
                  /\ Grown(base, 1) = [role |-> "assistant", content |-> fullResponse]
                  /\ \A i \in 1..n :
                       /\ Grown(base, 1 + i).role = "user"
                       /\ Grown(base, 1 + i).content
                            = <<"Tool result for ">> \o toolCalls[i].name
                              \o <<":\n">> \o execLog[i].result
                       /\ execLog[i].call = toolCalls[i])

\* a response with two requests: the list ends with the response and the
\* two results, the result of bash before the result of todo
C24_Witness ==
    /\ pc = "model"
    /\ modelCalls = 2
    /\ Len(toolCalls) = 2
    /\ inflight[Len(inflight) - 2].role = "assistant"
    /\ inflight[Len(inflight) - 2].content = fullResponse
    /\ inflight[Len(inflight) - 1].role = "user"
    /\ inflight[Len(inflight) - 1].content[2] = "bash"
    /\ inflight[Len(inflight)].role = "user"
    /\ inflight[Len(inflight)].content[2] = "todo"


(***************************************************************************)
(* One execution at a time (SpecBash)                                       *)
(***************************************************************************)
\* C25: what chat does for the requests of a response comes in groups of
\* four, request callback, execution awaited to its end, result callback,
\* result message appended, one group per request in request order, a group
\* being complete before the next begins; while an execution is in progress
\* chat does nothing else; and the model is called again only when the group
\* of the last request is complete.
C25_ExecutionsNeverOverlap ==
    /\ [](\A k \in 1..Len(hist.events) :
            /\ hist.events[k].ev
                 = <<"onToolCall", "resolved", "onToolResult", "pushed">>[((k - 1) % 4) + 1]
            /\ (k % 4 # 1) => /\ hist.events[k].idx = hist.events[k - 1].idx
                              /\ hist.events[k].round = hist.events[k - 1].round
            /\ (k % 4 = 1) => hist.events[k].idx
                                = (IF k > 1 /\ hist.events[k - 1].round = hist.events[k].round
                                   THEN hist.events[k - 1].idx + 1 ELSE 1))
    /\ [](proc.st # "none" => (pc = "bash" /\ Len(hist.events) % 4 = 1))
    /\ [](pc = "model" => Len(hist.events) % 4 = 0)
    /\ [][pc = "bash" => (\/ pc' = "bash" /\ UNCHANGED <<inflight, execLog, tcIdx, modelCalls, session, hist>>
                          \/ /\ pc' \in {"exec", "model"}
                             /\ Len(execLog') = Len(execLog) + 1
                             /\ Len(inflight') = Len(inflight) + 1
                             /\ tcIdx' = tcIdx + 1)]_vars
    /\ [][(pc \in {"exec", "bash"} /\ pc' = "model")
            => /\ Len(execLog') = Len(toolCalls)
               /\ hist'.events[Len(hist'.events)]
                    = [ev |-> "pushed", round |-> modelCalls, idx |-> Len(toolCalls)]]_vars

\* a response with two requests, a bash command that had to be awaited and
\* then todo, both complete, the second round requested
C25_Witness ==
    /\ pc = "model"
    /\ modelCalls = 2
    /\ Len(hist.events) = 8
    /\ hist.events[4] = [ev |-> "pushed", round |-> 1, idx |-> 1]
    /\ hist.events[5] = [ev |-> "onToolCall", round |-> 1, idx |-> 2]
    /\ execLog[1].call.name = <<"bash">>
    /\ execLog[2].call.name = <<"todo">>


(***************************************************************************)
(* The registry and the two grammars (SpecExtract)                          *)
(***************************************************************************)
\* the names of the primary-form requests of the plan that no tool carries
UnregisteredRequested ==
    {<<OfKind(plan, {"req"})[i].name>> : i \in 1..Len(OfKind(plan, {"req"}))}
        \ {<<allTools[i]>> : i \in 1..Len(allTools)}

\* C26: every request the extractor returns has the name of a registered
\* capability, and a primary-form occurrence with an unregistered name is
\* not among the returned requests (so that it is neither executed nor
\* answered with an error result).
C26_UnregisteredDropped ==
    pc = "extracted"
        => \A i \in 1..Len(toolCalls) :
             /\ getToolByName(toolCalls[i].name)
             /\ toolCalls[i].name \notin UnregisteredRequested

\* an unregistered request before a registered one: the second alone is returned
C26_Witness ==
    /\ pc = "extracted"
    /\ Len(plan) = 2
    /\ plan[1] = ReqSeg("nope", ArgFlat, FALSE)
    /\ plan[2] = ReqSeg("bash", ArgFlat, FALSE)
    /\ Len(toolCalls) = 1
    /\ toolCalls[1].name = <<"bash">>


\* a returned request that was matched in the primary form: its match
\* begins with a brace, that of the function-call form with a name
IsPrimaryCall(call) == fullResponse[call.index] = LB

\* the function-call occurrences of the plan with a name of the shortlist
FuncOccurrences == SelectSeq(OfKind(plan, {"func"}), LAMBDA seg : seg.name \in funcNames)

\* C27: the returned requests are never a mix of the two forms: when a
\* primary-form request is accepted, no function-call occurrence is returned;
\* and when no primary-form request is accepted, the function-call
\* occurrences of the text are returned, each with its name and arguments,
\* in order.
C27_FallbackOnlyWhenNoPrimary ==
    pc = "extracted"
        => /\ \A i, j \in 1..Len(toolCalls) :
                IsPrimaryCall(toolCalls[i]) = IsPrimaryCall(toolCalls[j])
           /\ (\A i \in 1..Len(toolCalls) : ~IsPrimaryCall(toolCalls[i]))
                => /\ Len(toolCalls) = Len(FuncOccurrences)
                   /\ \A i \in 1..Len(toolCalls) : IsRequest(toolCalls[i], FuncOccurrences[i])


(***************************************************************************)
(* The tool instructions: chat called on message lists of every shape       *)
(***************************************************************************)
\* sessions with and without tasks and summary; one task is about the
\* words the injection looks for
InjectSessions ==
    {[Transcript(n, {}, {}) EXCEPT !.todos = todos, !.summary = summary] :
        n \in 0..2,
        todos \in {<<>>, <<Task("id2", <<"fix">>, 1)>>, <<Task("id2", <<TOOL_CALLING>>, 1)>>},
        summary \in {Null, Str(<<"digest">>)}}

\* what the Repl passes to chat, the same with the section already in it,
\* and lists that do not begin with a system message
InjectLists ==
    LET fromRepl == {getMessagesForModel(sess) : sess \in InjectSessions}
    IN fromRepl
       \cup {injectToolsAlways(messages) : messages \in fromRepl}
       \cup {Tail(messages) : messages \in {l \in fromRepl : Len(l) > 1}}

InitInject ==
    /\ inflight \in InjectLists
    /\ request = <<>>
    /\ pc = "inject"
    /\ modelCalls = 0
    /\ plan = <<>>
    /\ chunks = <<>>
    /\ fullResponse = <<>>
    /\ toolCalls = <<>>
    /\ turns = 0
    /\ session = createEmptySession(Uuid(1), PRIMARY_MODEL, StartClock)
    /\ dirty = FALSE
    /\ saveTimeout = "null"
    /\ timers = NoTimers
    /\ cmp = NoCmp
    /\ disk = Absent
    /\ tw = Idle
    /\ mw = Idle
    /\ arch = <<>>
    /\ clock = StartClock
    /\ nextId = 1
    /\ tcIdx = 0
    /\ execLog = <<>>
    /\ proc = NoProc
    /\ ret = NoRet
    /\ hist = NoHist

\* chat(messages): the first gateway request
Inject ==
    /\ pc = "inject"
    /\ request' = injectTools(inflight)
    /\ modelCalls' = 1
    /\ pc' = "injected"
    /\ UNCHANGED <<turns, mvars, dvars, evars, plan, chunks, fullResponse, toolCalls,
                   inflight, tcIdx, execLog, proc, ret, hist>>

\* a round with a request: the response and the result are pushed, and
\* this.chat(messages, options) makes the next gateway request
Recurse ==
    /\ pc = "injected"
    /\ modelCalls <= MaxModelCalls
    /\ \E result \in {<<"output">>, <<TOOL_CALLING>>} :
         inflight' = inflight \o <<ChatMessage("assistant", <<"w">>),
                                  ChatMessage("user", ToolResultContent(<<"bash">>, result))>>
    /\ request' = injectTools(inflight')
    /\ modelCalls' = modelCalls + 1
    /\ UNCHANGED <<pc, turns, mvars, dvars, evars, plan, chunks, fullResponse, toolCalls,
                   tcIdx, execLog, proc, ret, hist>>

NextInject ==
    \/ Inject
    \/ Recurse

SpecInject == InitInject /\ [][NextInject]_vars

\* how many times the section stands in a text
SectionCount(content) ==
    Cardinality({k \in 1..Len(content) :
                   /\ k + Len(ToolSection) - 1 <= Len(content)
                   /\ SubSeq(content, k, k + Len(ToolSection) - 1) = ToolSection})

\* C28: in every gateway request the messages after the first are the
\* messages chat was given, unchanged and in order, and hold no section; a
\* first message that is not a system message is sent unchanged; a first
\* system message is sent with the section in it exactly once: unchanged
\* when it held the section already, and with the section appended otherwise.
C28_InjectionOnceInFirstSystem ==
    request # <<>>
        => /\ Len(request) = Len(inflight)
           /\ \A i \in 2..Len(request) :
                request[i] = inflight[i] /\ SectionCount(request[i].content) = 0
           /\ inflight[1].role # "system" => request[1] = inflight[1]
           /\ inflight[1].role = "system"
                => /\ SectionCount(request[1].content) = 1
                   /\ SectionCount(inflight[1].content) >= 1 => request[1] = inflight[1]
                   /\ SectionCount(inflight[1].content) = 0
                        => request[1].content = inflight[1].content \o ToolSection


(***************************************************************************)
(* How a call of chat ends (SpecChat)                                       *)
(***************************************************************************)
\* the rounds of the call in progress whose response held requests: each
\* has pushed its raw response on the list the Repl passed
RoundsWithRequests ==
    Cardinality({k \in 1..Len(inflight) : inflight[k].role = "assistant"})
      - Cardinality({k \in 1..Len(getMessagesForModel(session)) :
                       getMessagesForModel(session)[k].role = "assistant"})

\* C29 as stated: a call of chat ends only in a round in which the model
\* has produced a response and no request was extracted from it, and it
\* ends by returning that response.
C29_EndsOnlyOnZeroRequests ==
    [][(~Done /\ Done')
          => /\ AwaitingModel
             /\ fullResponse' = Accumulate(chunks', <<>>)
             /\ chunks' \in Chunkings(Render(plan'))
             /\ toolCalls' = <<>>
             /\ hist'.status = "ok"
             /\ hist'.answer = fullResponse']_vars

\* C29: a call of chat returns exactly in the round whose response yields no
\* request: it returns that response, and has called the model once per
\* round, the rounds with requests and this one.  A response with requests
\* never ends the call, whatever the number of the round: the requests are
\* executed and the model is called again.  The only other end of a call is
\* the error of the gateway, which passes through chat without a response.
C29_ReturnsExactlyOnZeroRequests ==
    [][/\ (~Done /\ Done')
            => /\ AwaitingModel
               /\ \/ /\ hist'.status = "ok"
                     /\ toolCalls' = <<>>
                     /\ hist'.answer = fullResponse'
                     /\ modelCalls = RoundsWithRequests + 1
                  \/ /\ hist'.status = "failed"
                     /\ ret'.val = "error"
                     /\ <<plan', chunks', fullResponse', toolCalls'>>
                          = <<plan, chunks, fullResponse, toolCalls>>
       /\ (AwaitingModel /\ hist'.status # "failed")
            => IF toolCalls' = <<>>
               THEN hist'.status = "ok" /\ hist'.answer = fullResponse'
               ELSE /\ Executing'
                    /\ modelCalls' = modelCalls
                    /\ modelCalls = RoundsWithRequests + 1
       /\ Executing
            => IF Len(execLog') = Len(toolCalls)
               THEN AwaitingModel' /\ modelCalls' = modelCalls + 1
               ELSE Executing' /\ modelCalls' = modelCalls]_vars

\* a call that returned in its last round, after rounds with requests
C29_Witness ==
    /\ hist.status = "ok"
    /\ modelCalls = MaxModelCalls
    /\ Len(hist.results) >= MaxModelCalls - 1
    /\ hist.answer = <<"w">>
    /\ toolCalls = <<>>


(***************************************************************************)
(* The Transcript's messages during chat (Spec)                             *)
(***************************************************************************)
\* C30: while a call of chat is in progress the messages of the session do
\* not change, and the list chat was given is only appended to, one message
\* at a time.  The messages of the session change in these steps only: load
\* at the start, the one user message the Repl adds before it calls chat,
\* the one assistant message it adds when chat has returned, holding the
\* answer, and the compaction maybeCompress makes after that; a call of chat
\* that fails leaves the session as it is.
C30_ChatLeavesMessages ==
    [][/\ (hist.status = "running" /\ hist'.status = "running")
            => /\ session'.messages = session.messages
               /\ \/ inflight' = inflight
                  \/ /\ Len(inflight') = Len(inflight) + 1
                     /\ SubSeq(inflight', 1, Len(inflight)) = inflight
       /\ (hist.status = "running" /\ hist'.status = "failed") => session' = session
       /\ session'.messages # session.messages
            => \/ pc = "init"
               \/ /\ pc = "prompt"
                  /\ hist'.status = "running"
                  /\ \E input \in Inputs :
                       session'.messages
                         = Append(session.messages,
                                  [role |-> "user", content |-> input, timestamp |-> clock'])
                  /\ inflight' = getMessagesForModel(session')
               \/ /\ AwaitingModel
                  /\ hist'.status = "ok"
                  /\ session'.messages
                       = Append(session.messages,
                                [role |-> "assistant", content |-> hist'.answer,
                                 timestamp |-> clock'])
               \/ /\ pc = "digest"
                  /\ hist.status = "ok"
                  /\ session'.messages
                       = SubSeq(session.messages, cmp.split + 1, Len(session.messages))]_vars

\* chat has returned after executions: the list it worked on holds the raw
\* response and the results, the session holds the input and the answer
C30_Witness ==
    /\ hist.status = "ok"
    /\ pc = "prompt"
    /\ Len(hist.results) >= 1
    /\ \E k \in 1..Len(inflight) : inflight[k].content[1] = "Tool result for "
    /\ \A k \in 1..Len(session.messages) : session.messages[k].content[1] # "Tool result for "
    /\ session.messages[Len(session.messages)].role = "assistant"
    /\ session.messages[Len(session.messages)].content = hist.answer
    /\ session.messages[Len(session.messages) - 1].role = "user"


(***************************************************************************)
(* maybeCompress at its two tests: Transcripts at the threshold and at the  *)
(* number of messages kept                                                   *)
(***************************************************************************)
\* n messages written at times 1..n (those in tied at the time of their
\* predecessor): "lorem" at the indices in big, one letter at those in
\* worded, the empty text elsewhere
Quiet(n, big, worded, tied) ==
    [Transcript(n, big, tied) EXCEPT
       !.messages = [i \in 1..n |->
                       [@[i] EXCEPT !.content = IF i \in big \/ i \in worded THEN @ ELSE <<>>]]]

\* ten messages without text; nine messages at the threshold exactly; a
\* record over the threshold; one compacted before; one with two messages
\* written in the same millisecond where the list will be split
CompressTranscripts ==
    {Quiet(10, {}, {}, {}),
     Quiet(9, {1}, {2}, {}),
     Transcript(12, {1}, {}),
     [Transcript(12, {12}, {}) EXCEPT !.summary = Str(<<"digest">>), !.summaryUpTo = 1],
     Transcript(11, {5}, {2})}

InitCompress ==
    /\ pc = "init"
    /\ turns = 0
    /\ session = createEmptySession(Uuid(1), PRIMARY_MODEL, StartClock)
    /\ dirty = FALSE
    /\ saveTimeout = "null"
    /\ timers = NoTimers
    /\ cmp = NoCmp
    /\ disk \in {File(JSONstringifySession(t)) : t \in CompressTranscripts}
    /\ tw = Idle
    /\ mw = Idle
    /\ arch = <<>>
    /\ clock = StartClock
    /\ nextId = 1
    /\ inflight = <<>>
    /\ plan = <<>>
    /\ chunks = <<>>
    /\ fullResponse = <<>>
    /\ toolCalls = <<>>
    /\ tcIdx = 0
    /\ modelCalls = 0
    /\ execLog = <<>>
    /\ proc = NoProc
    /\ request = <<>>
    /\ ret = NoRet
    /\ hist = NoHist

NextCompress ==
    \/ Start
    \/ AddMessage
    \/ MaybeCompress
    \/ DigestReturn
    \/ TimerFire
    \/ TimerStringify
    \/ TimerWritten

SpecCompress == InitCompress /\ [][NextCompress]_vars

\* C31: a call of maybeCompress on messages whose estimate is below 24000
\* returns false without calling the summarizer and leaves the session, the
\* dirty flag and the pending timer as they are; at 24000 or more it goes by
\* the split: with more than 10 messages it takes the messages before the
\* last 10 to the summarizer, with 10 or fewer it returns false.
C31_BelowThresholdNoOp ==
    [][MaybeCompress
         => IF estimateMessagesTokens(session.messages) < 24000
            THEN /\ ret'.val = "false"
                 /\ pc' = "prompt"
                 /\ cmp' = NoCmp
                 /\ <<session', dirty', saveTimeout'>> = <<session, dirty, saveTimeout>>
            ELSE IF Len(session.messages) > 10
                 THEN /\ pc' = "digest"
                      /\ cmp'.split = Len(session.messages) - 10
                      /\ cmp'.toSummarize = SubSeq(session.messages, 1, Len(session.messages) - 10)
                 ELSE ret'.val = "false" /\ pc' = "prompt"]_vars

\* one token below the threshold with 11 messages, a save pending: false
C31_Witness ==
    /\ ret.op = "maybeCompress"
    /\ ret.val = "false"
    /\ estimateMessagesTokens(session.messages) = CONTEXT_THRESHOLD - 1
    /\ Len(session.messages) = KEEP_RECENT_MESSAGES + 1
    /\ dirty
    /\ saveTimeout = "pending"

\* the threshold exactly with 12 messages: the summarizer is called
C31_WitnessAtThreshold ==
    /\ pc = "digest"
    /\ estimateMessagesTokens(session.messages) = CONTEXT_THRESHOLD
    /\ Len(cmp.toSummarize) = 2


\* C32: a call of maybeCompress on 10 messages or fewer returns false
\* without calling the summarizer and leaves the session, the dirty flag and
\* the timer as they are, whatever the estimate is.
C32_TenOrFewerNoOp ==
    [][(MaybeCompress /\ Len(session.messages) <= 10)
         => /\ ret'.val = "false"
            /\ pc' = "prompt"
            /\ cmp' = NoCmp
            /\ <<session', dirty', saveTimeout'>> = <<session, dirty, saveTimeout>>]_vars

\* 10 messages over the threshold, none of them compacted before: false
C32_Witness ==
    /\ ret.op = "maybeCompress"
    /\ ret.val = "false"
    /\ Len(session.messages) = 10
    /\ estimateMessagesTokens(session.messages) > CONTEXT_THRESHOLD
    /\ session.summary = Null
    /\ dirty


\* C33: a compaction of a Transcript that has a summary leaves as summary
\* the old summary, the delimiter, then the digest of this compaction (what
\* the summarizer returned for the messages taken before the await); without
\* a summary the digest alone.  No compaction shortens or alters the text
\* that was there.
C33_SummariesAccumulate ==
    [][Compacted
         => \E reply \in DigestReplies :
              LET digest == IF reply.ok THEN reply.text ELSE fallbackSummary(cmp.toSummarize)
                  old == session.summary
              IN /\ ~session'.summary.isNull
                 /\ session'.summary.text
                      = IF ~old.isNull /\ old.text # <<>>
                        THEN old.text \o <<"\n\n---\n\n">> \o digest
                        ELSE digest
                 /\ ~old.isNull
                      => SubSeq(session'.summary.text, 1, Len(old.text)) = old.text]_vars

\* two compactions in one run of a record that had no summary: both digests
C33_Witness ==
    /\ ret.op = "maybeCompress"
    /\ ret.val = "true"
    /\ session.summaryUpTo = 3
    /\ session.summary.text = <<"digest", "\n\n---\n\n", "digest">>


\* C34: once maybeCompress has compacted, the messages getContextMessages
\* builds for the next request are the system message, holding the prompt
\* and the summary section, and after it the messages the compaction kept,
\* all of them and in their order, whatever their timestamps.
C34_ContextIsSummaryAndTail ==
    [][Compacted
         => LET prompt == buildSystemPrompt(session')
                context == getContextMessages(session', prompt)
            IN /\ context[1].role = "system"
               /\ context[1].content
                    = prompt \o <<"\n\n## Previous Conversation Summary\n">>
                             \o session'.summary.text
               /\ Tail(context) = session'.messages
               /\ session'.messages
                    = SubSeq(session.messages, cmp.split + 1, Len(session.messages))]_vars


(***************************************************************************)
(* The scheduled save and the explicit save (SpecSession)                   *)
(***************************************************************************)
\* a step that changes the Transcript through the SessionManager
Mutation == session' # session /\ ~Start /\ ~Load

\* C35: at most one timer is pending at any time, the one saveTimeout
\* holds.  Each mutation leaves a new timer pending in the place of the one
\* that was, whatever the number of mutations before it; the timer that
\* fires is the one the last mutation set, and with its callback the one
\* write of the burst begins and no timer is left.
C35_OnePendingSave ==
    /\ [](Cardinality(timers.pending) <= 1 /\ timers.pending \subseteq {timers.handle})
    /\ [](saveTimeout = "pending" <=> timers.pending # {})
    /\ [][/\ Mutation => /\ timers'.handle \notin {0, timers.handle}
                         /\ timers'.pending = {timers'.handle}
                         /\ dirty'
          /\ TimerFire => /\ timers.pending = {timers.handle}
                          /\ timers'.pending = {}
                          /\ dirty => tw'.st = "mkdir"]_vars

\* three mutations in a row, no timer fired: one timer pending, the third
C35_Witness ==
    /\ turns = 3
    /\ ret.op = "addMessage"
    /\ ret.prev = "done"
    /\ Len(session.messages) = 3
    /\ disk = Absent
    /\ tw = Idle
    /\ Cardinality(timers.pending) = 1


\* a call of save() returns
SaveReturns == pc = "saving" /\ pc' = "prompt"

\* C36: a call of save() takes the pending timer off and writes the
\* Transcript itself; the Transcript does not change while the call is in
\* progress, and when the call returns no timer is pending, the dirty flag
\* is clear and what is found in the current record is the serialisation of
\* the Transcript, and nothing else.
C36_SaveWritesItself ==
    [][/\ Save => /\ timers'.pending = {}
                  /\ saveTimeout' = "null"
                  /\ mw'.st = "mkdir"
       /\ pc = "saving" => session' = session
       /\ SaveReturns
            => /\ ret'.op = "save"
               /\ timers'.pending = {}
               /\ ~dirty'
               /\ \A file \in ({disk'} \cup Writing(tw') \cup Writing(mw')) :
                     file = File(JSONstringifySession(session'))]_vars


\* C37: the completion of a save, scheduled or explicit, leaves the dirty
\* flag as it is when the text it wrote is not the Transcript of that moment;
\* and whenever, the last call being an addMessage, the dirty flag is clear
\* and no write is in progress, the current record holds the message added.
C37_MutationNeverLost ==
    /\ [][/\ (tw.st = "write" /\ tw'.st = "idle" /\ tw.buf # JSONstringifySession(session))
               => dirty' = dirty
          /\ (mw.st = "write" /\ mw'.st = "idle" /\ mw.buf # JSONstringifySession(session))
               => dirty' = dirty]_vars
    /\ []((ret.op = "addMessage" /\ ~dirty /\ tw.st = "idle" /\ mw.st = "idle")
            => /\ storageLoad(disk).found
               /\ \E k \in 1..Len(RecordOf(disk).messages) :
                    RecordOf(disk).messages[k] = session.messages[Len(session.messages)])


(***************************************************************************)
(* Writes of the current record that meet (SpecStore)                       *)
(***************************************************************************)
\* C38: the storage.save of the timer callback and the storage.save of
\* save(), called by itself or by archive, are never in progress together;
\* and a write that returns never puts another text in the place of the
\* record of the Transcript as it is.
C38_WritesNeverOverlap ==
    /\ [](~(tw.st # "idle" /\ mw.st # "idle"))
    /\ [][(disk = File(JSONstringifySession(session)) /\ session' = session
             /\ (tw'.st # tw.st \/ mw'.st # mw.st))
            => disk' = disk]_vars


\* C39: once archive() has completed for a Transcript (its snapshot is in
\* the archive and the manager holds another session), the current record is
\* not a record of that Transcript, at any later moment.
C39_ArchivedNeverCurrentAgain ==
    \A k \in 1..Len(arch) :
        JSONparseSession(arch[k]).id # session.id
            => ~(storageLoad(disk).found
                 /\ RecordOf(disk).id = JSONparseSession(arch[k]).id)


(***************************************************************************)
(* Compaction and the records written around it (SpecCompress)              *)
(***************************************************************************)
\* C40: the three fields change in the one step in which maybeCompress
\* resumes after the digest, the summary extended, summaryUpTo set to the
\* timestamp of the last message summarized and the messages cut to the
\* kept ones; no other step changes the summary or the cutoff or takes a
\* message away, and while the digest is awaited the session does not
\* change.  Each text a save takes is the serialisation of the session at
\* one moment, also when it is taken while the digest is awaited, and the
\* current record changes only to such a text: so every record written
\* holds the state before a compaction or the state after it.
C40_CompactionAtomic ==
    [][/\ Compacted
            => /\ ~session'.summary.isNull
               /\ ~session.summary.isNull
                    => SubSeq(session'.summary.text, 1, Len(session.summary.text))
                         = session.summary.text
               /\ session'.summaryUpTo = cmp.toSummarize[Len(cmp.toSummarize)].timestamp
               /\ session'.messages
                    = SubSeq(session.messages, cmp.split + 1, Len(session.messages))
               /\ Len(session'.messages) < Len(session.messages)
       /\ (pc = "digest" /\ ~Compacted) => session' = session
       /\ (pc # "init" /\ ~Compacted)
            => /\ session'.summary = session.summary
               /\ session'.summaryUpTo = session.summaryUpTo
               /\ SubSeq(session'.messages, 1, Len(session.messages)) = session.messages
       /\ (tw.st = "mkdir" /\ tw'.st = "write")
            => session' = session /\ tw'.buf = JSONstringifySession(session)
       /\ (disk' # disk) => (tw.st = "write" /\ disk' = File(tw.buf))]_vars

\* a compaction has ended while the write of a scheduled save is in
\* progress: its text holds the session as it was before, the messages
\* since summarized in it and the summary without their digest
C40_Witness ==
    /\ ret.op = "maybeCompress"
    /\ ret.val = "true"
    /\ tw.st = "write"
    /\ Len(Prop(tw.buf, "messages")) > Len(session.messages)
    /\ SubSeq(Prop(tw.buf, "messages"),
              Len(Prop(tw.buf, "messages")) - Len(session.messages) + 1,
              Len(Prop(tw.buf, "messages"))) = session.messages
    /\ Prop(tw.buf, "summary") # session.summary
    /\ Prop(tw.buf, "summaryUpTo") < session.summaryUpTo
    /\ session.messages[Len(session.messages)].timestamp >= StartClock

====
